---- MODULE Spec2Model ----
(***************************************************************************)
(* Terraform provider "streamsec": the resource and data-source handlers   *)
(* (Create / Read / Update / Delete) as a state machine over               *)
(*   - the remote backend (the accounts and kubernetes collections the     *)
(*     GraphQL API serves),                                                *)
(*   - the Terraform state of one resource instance,                       *)
(*   - the record of the last handler invocation (requests sent,           *)
(*     diagnostics, what was done to the state),                           *)
(*   - the provider's configuration and what Configure made of it,         *)
(*   - a history of the instance: the acknowledgement its Create sent.     *)
(* One behaviour follows one resource (or data source) instance; its type  *)
(* rt is chosen in Init.  Every handler is one atomic action.              *)
(***************************************************************************)
EXTENDS Integers, Sequences, FiniteSets, TLC

VARIABLES rt, backend, clusters, tfstate, last, provider, created

vars == <<rt, backend, clusters, tfstate, last, provider, created>>

-----------------------------------------------------------------------------
(* Bounds *)

\* accounts (and clusters) the backend holds before the first invocation
MaxAccounts == 2

-----------------------------------------------------------------------------
(* Values *)

\* types.String null / a JSON null; and an unknown planned value
NullStr == "<null>"
UnknownStr == "<unknown>"

\* types.String.ValueString(): the empty string for null and unknown
ValueString(v) == IF v \in {NullStr, UnknownStr} THEN "" ELSE v

\* a list element is a string spelled out as its characters
Quote == "\""
Backslash == "\\"
PlainElem == <<"a">>
QuotedElem == <<"a", Quote>>
\* list-typed attribute values: empty, one element, two elements in both orders
ListValues == {<<>>, <<PlainElem>>, <<PlainElem, QuotedElem>>, <<QuotedElem, PlainElem>>}

CloudIds == {"c1", "c2"}
DisplayNames == {"d1", "d2"}
StackRegions == {"sr1"}
Emails == {"e1", "e2"}
PrivateKeys == {"k1", "k2"}
RoleARNs == {"role1", "role2"}
RegionNames == {"r1", "r2"}
EksArns == {"arn1", "arn2"}

\* identifiers the backend hands out, in this order
NewIds == <<"n1", "n2">>

-----------------------------------------------------------------------------
(* internal/utils/helper_functions.go *)

\* strconv.Quote as fmt's %q applies it in basetypes.StringValue.String()
EscapeChar(c) == IF c = Quote THEN <<Backslash, Quote>>
                 ELSE IF c = Backslash THEN <<Backslash, Backslash>>
                 ELSE <<c>>

RECURSIVE Escape(_)
Escape(s) == IF s = <<>> THEN <<>> ELSE EscapeChar(Head(s)) \o Escape(Tail(s))

\* attr.Value.String() of a known string element
ElemString(s) == <<Quote>> \o Escape(s) \o <<Quote>>

\* strings.Replace(x, "\"", "", -1)
RECURSIVE StripQuotes(_)
StripQuotes(s) == IF s = <<>> THEN <<>>
                  ELSE IF Head(s) = Quote THEN StripQuotes(Tail(s))
                  ELSE <<Head(s)>> \o StripQuotes(Tail(s))

ConvertToStringSlice(values) ==
  [i \in 1..Len(values) |-> StripQuotes(ElemString(values[i]))]

ConvertInterfaceToTypesList(values) == [i \in 1..Len(values) |-> values[i]]

ConvertStringsArrayToTypesList(values) == [i \in 1..Len(values) |-> values[i]]

\* EqualListValues comparing the lengths only
EqualListValues_LengthOnly(a, b) == Len(a) = Len(b)

EqualListValues(a, b) ==
  IF Len(a) # Len(b) THEN FALSE
  ELSE \A i \in 1..Len(a) : a[i] = b[i]

-----------------------------------------------------------------------------
(* The backend *)

NoRemediation == [nil |-> TRUE]
Remediation(st) == [nil |-> FALSE, status |-> st, role_arn |-> "role0",
                    runbook_list |-> <<>>, location |-> "loc0"]
\* realtime_regions, subscriptions: null, or a list
NullList == [nil |-> TRUE]
JSONList(xs) == [nil |-> FALSE, items |-> xs]

\* fields the backend derives for an account
TemplateURL(id) == "url-" \o id
ExternalID(id) == "ext-" \o id
CollectionToken(id) == "ctok-" \o id
AccountAuthToken(id) == "auth-" \o id
AccountToken(id) == "atok-" \o id

Account(id, type, cid, name, regions, stack) ==
  [ _id |-> id, account_type |-> type, cloud_account_id |-> cid,
    display_name |-> name, cloud_regions |-> regions, stack_region |-> stack,
    status |-> "ACTIVE", realtime_regions |-> NullList,
    remediation |-> NoRemediation,
    client_email |-> "", private_key |-> "", role_arn |-> "",
    client_id |-> "", client_secret |-> "", subscriptions |-> NullList ]

IdsOf(accts) == {accts[i]._id : i \in 1..Len(accts)}

\* the identifier createAccount / createKubernetes gives the new object
HasFreshId(accts) == \E i \in 1..Len(NewIds) : NewIds[i] \notin IdsOf(accts)
FreshId(accts) ==
  NewIds[CHOOSE i \in 1..Len(NewIds) :
           /\ NewIds[i] \notin IdsOf(accts)
           /\ \A j \in 1..(i-1) : NewIds[j] \in IdsOf(accts)]

IndexOfId(accts, id) ==
  IF \E i \in 1..Len(accts) : accts[i]._id = id
  THEN CHOOSE i \in 1..Len(accts) : accts[i]._id = id
  ELSE 0

RemoveAt(s, i) == [j \in 1..(Len(s)-1) |-> IF j < i THEN s[j] ELSE s[j+1]]

\* the loop  for _, x := range seq { acc = Step(acc, x) }
Fold(Step(_, _), init, seq) ==
  LET f[i \in 0..Len(seq)] == IF i = 0 THEN init ELSE Step(f[i-1], seq[i])
  IN f[Len(seq)]

-----------------------------------------------------------------------------
(* Requests and invocation records *)

GraphQL(name, vars_, token, ok) ==
  [api |-> "graphql", name |-> name, vars |-> vars_, token |-> token, ok |-> ok]

Rest(method, url, body, token, result) ==
  [api |-> "rest", name |-> url, method |-> method, vars |-> body,
   token |-> token, result |-> result, ok |-> (result = "200")]

\* http.DefaultClient.Do: a transport error, or a response with a status
RestResults == {"200", "500", "transport"}

NoState == [absent |-> TRUE]
NoPlan == [absent |-> TRUE]
NoCall == [op |-> "none", plan |-> NoPlan, prior |-> NoState, pre |-> <<>>,
           reqs |-> <<>>, diags |-> <<>>, crashed |-> FALSE, wrote |-> "none",
           importing |-> FALSE]

\* no Create has made the present instance
NotCreated == [absent |-> TRUE]

\* what a handler returns: requests sent, diagnostics, whether it panicked,
\* what it did to the state ("set" data, "remove", or "none"), the backend after
Result(reqs, diags, crashed, wrote, data, accts) ==
  [reqs |-> reqs, diags |-> diags, crashed |-> crashed, wrote |-> wrote,
   data |-> data, backend |-> accts]

\* a state made by ImportState is being imported until a Read has stored it
Importing == tfstate # NoState /\ (last.op = "ImportState" \/ last.importing)

\* the framework applies the response: a Delete without error removes the state.
\* created keeps the body of the acknowledgement that the Create of an
\* aws_real_time_events_ack instance sent, until the next instance begins
Respond(op, plan, r) ==
  /\ IF rt = "eks_cluster"
     THEN clusters' = r.backend /\ UNCHANGED backend
     ELSE backend' = r.backend /\ UNCHANGED clusters
  /\ tfstate' = IF r.wrote = "set" THEN r.data
                ELSE IF r.wrote = "remove" THEN NoState
                ELSE IF op = "Delete" /\ r.diags = <<>> /\ ~r.crashed THEN NoState
                ELSE tfstate
  /\ last' = [op |-> op, plan |-> plan, prior |-> tfstate,
              pre |-> IF rt = "eks_cluster" THEN clusters ELSE backend,
              reqs |-> r.reqs, diags |-> r.diags, crashed |-> r.crashed,
              wrote |-> r.wrote, importing |-> (Importing /\ r.wrote = "none")]
  /\ created' = IF rt = "aws_real_time_events_ack" /\ op = "Create" /\ r.wrote = "set"
                THEN r.reqs[Len(r.reqs)].vars
                ELSE IF tfstate = NoState THEN NotCreated
                ELSE created
  /\ UNCHANGED <<rt, provider>>

\* Terraform calls Create and ImportState when it holds no state of the
\* resource, Read when it holds one, and Update and Delete when it holds one
\* that is not being imported
Absent == tfstate = NoState
Present == tfstate # NoState
Managed == tfstate # NoState /\ ~Importing

-----------------------------------------------------------------------------
(* internal/client: DoRequest, and what the backend does with a mutation *)

\* DoRequest returns an error or a response; a mutation that names an object
\* the backend does not hold, or a creation when no identifier is left, fails
DoRequestResults(possible) == IF possible THEN BOOLEAN ELSE {FALSE}

createAccount(accts, type, cid, name, regions, stack) ==
  Append(accts, Account(FreshId(accts), type, cid, name, regions, stack))

\* updateAccount(id, account): the fields given replace the stored ones
updateAccount(accts, id, fields) ==
  [i \in 1..Len(accts) |->
     IF accts[i]._id = id
     THEN [f \in DOMAIN accts[i] |->
             IF f \in DOMAIN fields THEN fields[f] ELSE accts[i][f]]
     ELSE accts[i]]

deleteAccount(accts, id) == RemoveAt(accts, IndexOfId(accts, id))

\* the accumulator of a lookup loop over the accounts of a response:
\* halt is "" while the loop runs, else how the handler left it
Loop(data) == [data |-> data, found |-> FALSE, flag |-> FALSE, token |-> "", halt |-> ""]
Halt(acc, how) == [acc EXCEPT !.halt = how]

-----------------------------------------------------------------------------
(* aws_account_resource.go *)

AWSAccountResourceModel(name, cid, regions, stack) ==
  [ id |-> UnknownStr, display_name |-> name, cloud_account_id |-> cid,
    cloud_regions |-> regions, stack_region |-> stack,
    template_url |-> UnknownStr, external_id |-> UnknownStr,
    streamsec_collection_token |-> UnknownStr, account_auth_token |-> UnknownStr ]

AWSAccountResource_Create ==
  /\ rt = "aws_account" /\ Absent
  /\ \E name \in DisplayNames, cid \in CloudIds, regions \in ListValues,
        stack \in StackRegions, ok \in DoRequestResults(HasFreshId(backend)) :
       LET data == AWSAccountResourceModel(name, cid, regions, stack)
           variables == [ account_type |-> "AWS",
                          cloud_account_id |-> ValueString(data.cloud_account_id),
                          display_name |-> ValueString(data.display_name),
                          cloud_regions |-> ConvertToStringSlice(data.cloud_regions),
                          stack_region |-> ValueString(data.stack_region) ]
           req == GraphQL("createAccount", variables, "", ok)
       IN IF ~ok
          THEN Respond("Create", data,
                 Result(<<req>>, <<"Client Error">>, FALSE, "none", data, backend))
          ELSE LET after == createAccount(backend, "AWS", variables.cloud_account_id,
                              variables.display_name, variables.cloud_regions,
                              variables.stack_region)
                   account == after[Len(after)]
                   written == [data EXCEPT
                     !.id = account._id,
                     !.template_url = TemplateURL(account._id),
                     !.external_id = ExternalID(account._id),
                     !.streamsec_collection_token = CollectionToken(account._id),
                     !.account_auth_token = AccountAuthToken(account._id)]
               IN Respond("Create", data,
                    Result(<<req>>, <<>>, FALSE, "set", written, after))

AWSAccountResource_ReadStep(acc, account) ==
  IF acc.halt # "" THEN acc
  ELSE IF account.cloud_account_id = NullStr THEN Halt(acc, "panic")
  ELSE IF account.cloud_account_id = ValueString(acc.data.cloud_account_id)
  THEN [acc EXCEPT
         !.data = [acc.data EXCEPT
            !.id = account._id,
            !.display_name = account.display_name,
            !.cloud_regions = ConvertInterfaceToTypesList(account.cloud_regions),
            !.stack_region = account.stack_region,
            !.template_url = TemplateURL(account._id),
            !.external_id = ExternalID(account._id),
            !.streamsec_collection_token = CollectionToken(account._id),
            !.account_auth_token = AccountAuthToken(account._id)],
         !.found = TRUE]
  ELSE acc

AWSAccountResource_Read ==
  /\ rt = "aws_account" /\ Present
  /\ \E ok \in BOOLEAN :
       LET req == GraphQL("accounts", <<>>, "", ok)
           acc == Fold(AWSAccountResource_ReadStep, Loop(tfstate), backend)
       IN Respond("Read", NoPlan,
            IF ~ok THEN Result(<<req>>, <<"Client Error">>, FALSE, "none", tfstate, backend)
            ELSE IF acc.halt = "panic"
                 THEN Result(<<req>>, <<>>, TRUE, "none", tfstate, backend)
            ELSE IF ~acc.found
                 THEN Result(<<req>>, <<"Resource not found">>, FALSE, "none", tfstate, backend)
            ELSE Result(<<req>>, <<>>, FALSE, "set", acc.data, backend))

AWSAccountResource_Update ==
  /\ rt = "aws_account" /\ Managed
  /\ \E name \in DisplayNames, regions \in ListValues, stack \in StackRegions :
       LET state == tfstate
           data == [state EXCEPT !.display_name = name, !.cloud_regions = regions,
                                 !.stack_region = stack]
           changed == data.display_name # state.display_name
                        \/ ~EqualListValues(data.cloud_regions, state.cloud_regions)
           fields == [ cloud_regions |-> ConvertToStringSlice(data.cloud_regions),
                       display_name |-> ValueString(data.display_name) ]
           variables == [id |-> ValueString(data.id), account |-> fields]
       IN IF changed
          THEN \E ok \in DoRequestResults(IndexOfId(backend, variables.id) # 0) :
                 LET req == GraphQL("updateAccount", variables, "", ok)
                 IN Respond("Update", data,
                      IF ~ok THEN Result(<<req>>, <<"Client Error">>, FALSE, "none", data, backend)
                      ELSE Result(<<req>>, <<>>, FALSE, "set", data,
                                  updateAccount(backend, variables.id, fields)))
          ELSE Respond("Update", data, Result(<<>>, <<>>, FALSE, "set", data, backend))

\* AWSAccountResource_Delete going on after the mutation failed
AWSAccountResource_Delete_IgnoringError ==
  /\ rt = "aws_account" /\ Managed
  /\ LET data == tfstate
         variables == [id |-> ValueString(data.id)]
     IN \E ok \in DoRequestResults(IndexOfId(backend, variables.id) # 0) :
          LET req == GraphQL("deleteAccount", variables, "", ok)
          IN Respond("Delete", NoPlan,
               IF ~ok THEN Result(<<req>>, <<>>, FALSE, "none", data, backend)
               ELSE Result(<<req>>, <<>>, FALSE, "none", data,
                           deleteAccount(backend, variables.id)))

AWSAccountResource_Delete ==
  /\ rt = "aws_account" /\ Managed
  /\ LET data == tfstate
         variables == [id |-> ValueString(data.id)]
     IN \E ok \in DoRequestResults(IndexOfId(backend, variables.id) # 0) :
          LET req == GraphQL("deleteAccount", variables, "", ok)
          IN Respond("Delete", NoPlan,
               IF ~ok THEN Result(<<req>>, <<"Client Error">>, FALSE, "none", data, backend)
               ELSE Result(<<req>>, <<>>, FALSE, "none", data,
                           deleteAccount(backend, variables.id)))

-----------------------------------------------------------------------------
(* azure_tenant_resource.go: AzureTenantResource *)

AzureTenantResourceModel(name) ==
  [ id |-> UnknownStr, display_name |-> name,
    template_url |-> UnknownStr, account_token |-> UnknownStr ]

AzureTenantResource_Create ==
  /\ rt = "azure_tenant" /\ Absent
  /\ \E name \in DisplayNames, ok \in DoRequestResults(HasFreshId(backend)) :
       LET data == AzureTenantResourceModel(name)
           variables == [ account_type |-> "Azure",
                          display_name |-> ValueString(data.display_name) ]
           req == GraphQL("createAccount", variables, "", ok)
       IN IF ~ok
          THEN Respond("Create", data,
                 Result(<<req>>, <<"Client Error">>, FALSE, "none", data, backend))
          ELSE LET after == createAccount(backend, "Azure", NullStr,
                              variables.display_name, <<>>, NullStr)
                   account == after[Len(after)]
                   written == [data EXCEPT
                     !.id = account._id,
                     !.template_url = TemplateURL(account._id),
                     !.account_token = AccountToken(account._id)]
               IN Respond("Create", data,
                    Result(<<req>>, <<>>, FALSE, "set", written, after))

AzureTenantResource_ReadStep(acc, account) ==
  IF acc.halt # "" THEN acc
  ELSE IF account._id = ValueString(acc.data.id)
  THEN IF account.status = "DELETING"
       THEN Halt(acc, "Resource status is DELETING")
       ELSE [acc EXCEPT
              !.data = [acc.data EXCEPT
                 !.id = account._id,
                 !.display_name = account.display_name,
                 !.template_url = TemplateURL(account._id),
                 !.account_token = AccountToken(account._id)],
              !.found = TRUE]
  ELSE acc

AzureTenantResource_Read ==
  /\ rt = "azure_tenant" /\ Present
  /\ \E ok \in BOOLEAN :
       LET req == GraphQL("accounts", <<>>, "", ok)
           acc == Fold(AzureTenantResource_ReadStep, Loop(tfstate), backend)
       IN Respond("Read", NoPlan,
            IF ~ok THEN Result(<<req>>, <<"Client Error">>, FALSE, "none", tfstate, backend)
            ELSE IF acc.halt # ""
                 THEN Result(<<req>>, <<acc.halt>>, FALSE, "none", tfstate, backend)
            ELSE IF ~acc.found
                 THEN Result(<<req>>, <<"Resource not found">>, FALSE, "none", tfstate, backend)
            ELSE Result(<<req>>, <<>>, FALSE, "set", acc.data, backend))

AzureTenantResource_Update ==
  /\ rt = "azure_tenant" /\ Managed
  /\ \E name \in DisplayNames :
       LET state == tfstate
           data == [state EXCEPT !.display_name = name]
           fields == [display_name |-> ValueString(data.display_name)]
           variables == [id |-> ValueString(data.id), account |-> fields]
       IN IF data.display_name # state.display_name
          THEN \E ok \in DoRequestResults(IndexOfId(backend, variables.id) # 0) :
                 LET req == GraphQL("updateAccount", variables, "", ok)
                 IN Respond("Update", data,
                      IF ~ok THEN Result(<<req>>, <<"Client Error">>, FALSE, "none", data, backend)
                      ELSE Result(<<req>>, <<>>, FALSE, "set", data,
                                  updateAccount(backend, variables.id, fields)))
          ELSE Respond("Update", data, Result(<<>>, <<>>, FALSE, "set", data, backend))

\* AzureTenantResource_Delete looking the tenant up before it deletes it
AzureTenantResource_Delete_LookingUp ==
  /\ rt = "azure_tenant" /\ Managed
  /\ LET data == tfstate
         variables == [id |-> ValueString(data.id)]
         lookup == GraphQL("accounts", <<>>, "", TRUE)
     IN \E ok \in DoRequestResults(IndexOfId(backend, variables.id) # 0) :
          LET req == GraphQL("deleteAccount", variables, "", ok)
          IN Respond("Delete", NoPlan,
               IF ~ok THEN Result(<<lookup, req>>, <<"Client Error">>, FALSE, "none", data, backend)
               ELSE Result(<<lookup, req>>, <<>>, FALSE, "none", data,
                           deleteAccount(backend, variables.id)))

AzureTenantResource_Delete ==
  /\ rt = "azure_tenant" /\ Managed
  /\ LET data == tfstate
         variables == [id |-> ValueString(data.id)]
     IN \E ok \in DoRequestResults(IndexOfId(backend, variables.id) # 0) :
          LET req == GraphQL("deleteAccount", variables, "", ok)
          IN Respond("Delete", NoPlan,
               IF ~ok THEN Result(<<req>>, <<"Client Error">>, FALSE, "none", data, backend)
               ELSE Result(<<req>>, <<>>, FALSE, "none", data,
                           deleteAccount(backend, variables.id)))

-----------------------------------------------------------------------------
(* gcp_project_resource.go *)

\* the attributes of the schema, and the tfsdk tags of GCPProjectResourceModel
GCPProjectSchemaAttributes == {"id", "display_name", "cloud_account_id", "account_token"}
GCPProjectResourceModelTags == {"id", "display_name", "project_id", "account_token"}

\* req.Plan.Get / req.State.Get into a struct: the framework reports an error
\* unless the struct's tags and the object's attributes are the same set
GetIntoStruct(attributes, tags) == attributes = tags

GCPProjectResourceModel(name, cid) ==
  [ id |-> UnknownStr, display_name |-> name, cloud_account_id |-> cid,
    account_token |-> UnknownStr ]

\* No state of this resource is ever written (Create always stops at Plan.Get,
\* and ImportState names the attribute project_id, which the schema lacks), so
\* Terraform has nothing to call Read, Update or Delete with.
GCPProjectResource_Create ==
  /\ rt = "gcp_project" /\ Absent
  /\ \E name \in DisplayNames, cid \in CloudIds,
        ok \in DoRequestResults(HasFreshId(backend)) :
       LET data == GCPProjectResourceModel(name, cid)
           variables == [ account_type |-> "GCP",
                          cloud_account_id |-> ValueString(data.cloud_account_id),
                          display_name |-> ValueString(data.display_name) ]
           req == GraphQL("createAccount", variables, "", ok)
       IN IF ~GetIntoStruct(GCPProjectSchemaAttributes, GCPProjectResourceModelTags)
          THEN Respond("Create", data,
                 Result(<<>>, <<"Value Conversion Error">>, FALSE, "none", data, backend))
          ELSE IF ~ok
          THEN Respond("Create", data,
                 Result(<<req>>, <<"Client Error">>, FALSE, "none", data, backend))
          ELSE LET after == createAccount(backend, "GCP", variables.cloud_account_id,
                              variables.display_name, <<>>, NullStr)
                   account == after[Len(after)]
                   written == [data EXCEPT
                     !.id = account._id,
                     !.account_token = AccountToken(account._id)]
               IN Respond("Create", data,
                    Result(<<req>>, <<>>, FALSE, "set", written, after))

-----------------------------------------------------------------------------
(* google_workspace_resource.go *)

\* configurations of (display_name, client_email, private_key): a base one
\* and one per attribute that differs from it
GoogleWorkspaceConfigs ==
  { <<"d1", "e1", "k1">>, <<"d2", "e1", "k1">>, <<"d1", "e2", "k1">>, <<"d1", "e1", "k2">> }

GoogleWorkspaceResourceModel(name, cid, email, key) ==
  [ id |-> UnknownStr, display_name |-> name, customer_id |-> cid,
    client_email |-> email, private_key |-> key, account_token |-> UnknownStr ]

GoogleWorkspaceResource_Create ==
  /\ rt = "google_workspace" /\ Absent
  /\ \E c \in GoogleWorkspaceConfigs, cid \in CloudIds,
        ok \in DoRequestResults(HasFreshId(backend)) :
       LET data == GoogleWorkspaceResourceModel(c[1], cid, c[2], c[3])
           variables == [ account_type |-> "GOOGLE_WORKSPACE",
                          cloud_account_id |-> ValueString(data.customer_id),
                          display_name |-> ValueString(data.display_name),
                          client_email |-> ValueString(data.client_email),
                          private_key |-> ValueString(data.private_key) ]
           req == GraphQL("createAccount", variables, "", ok)
       IN IF ~ok
          THEN Respond("Create", data,
                 Result(<<req>>, <<"Client Error">>, FALSE, "none", data, backend))
          ELSE \* the mutation text passes account_type, cloud_account_id, display_name
               LET after == createAccount(backend, "GOOGLE_WORKSPACE",
                              variables.cloud_account_id, variables.display_name,
                              <<>>, NullStr)
                   account == after[Len(after)]
                   written == [data EXCEPT
                     !.id = account._id,
                     !.account_token = AccountToken(account._id)]
               IN Respond("Create", data,
                    Result(<<req>>, <<>>, FALSE, "set", written, after))

GoogleWorkspaceResource_ReadStep(acc, account) ==
  IF acc.halt # "" THEN acc
  ELSE IF account.cloud_account_id = NullStr THEN Halt(acc, "panic")
  ELSE IF account.cloud_account_id = ValueString(acc.data.customer_id)
  THEN IF account.status = "DELETING"
       THEN Halt(acc, "Resource status is DELETING")
       ELSE [acc EXCEPT
              !.data = [acc.data EXCEPT
                 !.id = account._id,
                 !.display_name = account.display_name,
                 !.account_token = AccountToken(account._id)],
              !.found = TRUE]
  ELSE acc

GoogleWorkspaceResource_Read ==
  /\ rt = "google_workspace" /\ Present
  /\ \E ok \in BOOLEAN :
       LET req == GraphQL("accounts", <<>>, "", ok)
           acc == Fold(GoogleWorkspaceResource_ReadStep, Loop(tfstate), backend)
       IN Respond("Read", NoPlan,
            IF ~ok THEN Result(<<req>>, <<"Client Error">>, FALSE, "none", tfstate, backend)
            ELSE IF acc.halt = "panic"
                 THEN Result(<<req>>, <<>>, TRUE, "none", tfstate, backend)
            ELSE IF acc.halt # ""
                 THEN Result(<<req>>, <<acc.halt>>, FALSE, "none", tfstate, backend)
            ELSE IF ~acc.found
                 THEN Result(<<req>>, <<>>, FALSE, "remove", tfstate, backend)
            ELSE Result(<<req>>, <<>>, FALSE, "set", acc.data, backend))

GoogleWorkspaceResource_Update ==
  /\ rt = "google_workspace" /\ Managed
  /\ \E c \in GoogleWorkspaceConfigs :
       LET state == tfstate
           data == [state EXCEPT !.display_name = c[1], !.client_email = c[2],
                                 !.private_key = c[3]]
           changed == \/ data.display_name # state.display_name
                      \/ data.client_email # state.client_email
                      \/ data.private_key # state.private_key
           fields == [ display_name |-> ValueString(data.display_name),
                       client_email |-> ValueString(data.client_email),
                       private_key |-> ValueString(data.private_key) ]
           variables == [id |-> ValueString(data.id), account |-> fields]
       IN IF changed
          THEN \E ok \in DoRequestResults(IndexOfId(backend, variables.id) # 0) :
                 LET req == GraphQL("updateAccount", variables, "", ok)
                 IN Respond("Update", data,
                      IF ~ok THEN Result(<<req>>, <<"Client Error">>, FALSE, "none", data, backend)
                      ELSE Result(<<req>>, <<>>, FALSE, "set", data,
                                  updateAccount(backend, variables.id, fields)))
          ELSE Respond("Update", data, Result(<<>>, <<>>, FALSE, "set", data, backend))

GoogleWorkspaceResource_Delete ==
  /\ rt = "google_workspace" /\ Managed
  /\ LET data == tfstate
         variables == [id |-> ValueString(data.id)]
     IN \E ok \in DoRequestResults(IndexOfId(backend, variables.id) # 0) :
          LET req == GraphQL("deleteAccount", variables, "", ok)
          IN Respond("Delete", NoPlan,
               IF ~ok THEN Result(<<req>>, <<"Client Error">>, FALSE, "none", data, backend)
               ELSE Result(<<req>>, <<>>, FALSE, "none", data,
                           deleteAccount(backend, variables.id)))

-----------------------------------------------------------------------------
(* eks_cluster_resource.go *)

Cluster(id, name, arn) ==
  [ _id |-> id, display_name |-> name, eks_arn |-> arn, status |-> "PENDING",
    collection_token |-> CollectionToken(id), creation_date |-> "date-" \o id ]

createKubernetes(items, name, arn) == Append(items, Cluster(FreshId(items), name, arn))
updateKubernetes(items, id, fields) == updateAccount(items, id, fields)
deleteKubernetes(items, id) == deleteAccount(items, id)

\* one item of a response carries the fields the query text selects
Select(item, fields) == [f \in fields |-> item[f]]

\* the selection of the kubernetes query of Read
KubernetesReadFields == {"_id", "display_name", "status", "collection_token", "creation_date"}

EKSClusterResourceModel(arn, name) ==
  [ id |-> UnknownStr, arn |-> arn, display_name |-> name, status |-> UnknownStr,
    collection_token |-> UnknownStr, creation_date |-> UnknownStr ]

EKSClusterResource_Create ==
  /\ rt = "eks_cluster" /\ Absent
  /\ \E name \in DisplayNames, arn \in EksArns,
        ok \in DoRequestResults(HasFreshId(clusters)) :
       LET data == EKSClusterResourceModel(arn, name)
           variables == [ display_name |-> ValueString(data.display_name),
                          arn |-> ValueString(data.arn) ]
           req == GraphQL("createKubernetes", variables, "", ok)
       IN IF ~ok
          THEN Respond("Create", data,
                 Result(<<req>>, <<"Client Error">>, FALSE, "none", data, clusters))
          ELSE LET after == createKubernetes(clusters, variables.display_name, variables.arn)
                   cluster == after[Len(after)]
                   written == [data EXCEPT
                     !.id = cluster._id,
                     !.status = cluster.status,
                     !.collection_token = cluster.collection_token,
                     !.creation_date = cluster.creation_date]
               IN Respond("Create", data,
                    Result(<<req>>, <<>>, FALSE, "set", written, after))

\* cluster["eks_arn"].(string) panics when the item has no eks_arn
EKSClusterResource_ReadStep(acc, item) ==
  LET cluster == Select(item, KubernetesReadFields)
  IN IF acc.halt # "" THEN acc
     ELSE IF "eks_arn" \notin DOMAIN cluster THEN Halt(acc, "panic")
     ELSE IF cluster["eks_arn"] = ValueString(acc.data.arn)
     THEN [acc EXCEPT
            !.data = [acc.data EXCEPT
               !.id = cluster._id,
               !.display_name = cluster.display_name,
               !.status = cluster.status,
               !.collection_token = cluster.collection_token,
               !.creation_date = cluster.creation_date],
            !.found = TRUE]
     ELSE acc

EKSClusterResource_Read ==
  /\ rt = "eks_cluster" /\ Present
  /\ \E ok \in BOOLEAN :
       LET req == GraphQL("kubernetes", <<>>, "", ok)
           acc == Fold(EKSClusterResource_ReadStep, Loop(tfstate), clusters)
       IN Respond("Read", NoPlan,
            IF ~ok THEN Result(<<req>>, <<"Client Error">>, FALSE, "none", tfstate, clusters)
            ELSE IF acc.halt = "panic"
                 THEN Result(<<req>>, <<>>, TRUE, "none", tfstate, clusters)
            ELSE IF ~acc.found
                 THEN Result(<<req>>, <<"Resource not found">>, FALSE, "none", tfstate, clusters)
            ELSE Result(<<req>>, <<>>, FALSE, "set", acc.data, clusters))

EKSClusterResource_Update ==
  /\ rt = "eks_cluster" /\ Managed
  /\ \E name \in DisplayNames :
       LET state == tfstate
           data == [state EXCEPT !.display_name = name]
           fields == [display_name |-> ValueString(data.display_name)]
           variables == [id |-> ValueString(data.id), kubernetes |-> fields]
       IN IF data.display_name # state.display_name
          THEN \E ok \in DoRequestResults(IndexOfId(clusters, variables.id) # 0) :
                 LET req == GraphQL("updateKubernetes", variables, "", ok)
                 IN Respond("Update", data,
                      IF ~ok THEN Result(<<req>>, <<"Client Error">>, FALSE, "none", data, clusters)
                      ELSE Result(<<req>>, <<>>, FALSE, "set", data,
                                  updateKubernetes(clusters, variables.id, fields)))
          ELSE Respond("Update", data, Result(<<>>, <<>>, FALSE, "set", data, clusters))

EKSClusterResource_Delete ==
  /\ rt = "eks_cluster" /\ Managed
  /\ LET data == tfstate
         variables == [id |-> ValueString(data.id)]
     IN \E ok \in DoRequestResults(IndexOfId(clusters, variables.id) # 0) :
          LET req == GraphQL("deleteKubernetes", variables, "", ok)
          IN Respond("Delete", NoPlan,
               IF ~ok THEN Result(<<req>>, <<"Client Error">>, FALSE, "none", data, clusters)
               ELSE Result(<<req>>, <<>>, FALSE, "none", data,
                           deleteKubernetes(clusters, variables.id)))

-----------------------------------------------------------------------------
(* azure_tenant_resource.go, second half: AWSAccountAckResource (aws_account_ack) *)

AWSAccountAckResourceModel(role, cid, stack) ==
  [ id |-> UnknownStr, role_arn |-> role, cloud_account_id |-> cid, stack_region |-> stack ]

\* AWSAccountAckResource_LookupStep taking every account for the configured one
AWSAccountAckResource_LookupStep_AnyAccount(acc, account) ==
  IF acc.halt # "" THEN acc
  ELSE IF account.cloud_account_id = NullStr THEN Halt(acc, "panic")
  ELSE [acc EXCEPT !.data = [acc.data EXCEPT !.id = account._id],
                   !.found = TRUE,
                   !.token = AccountAuthToken(account._id)]

\* the lookup loop of Create and Update: the last matching account wins
AWSAccountAckResource_LookupStep(acc, account) ==
  IF acc.halt # "" THEN acc
  ELSE IF account.cloud_account_id = NullStr THEN Halt(acc, "panic")
  ELSE IF account.cloud_account_id = ValueString(acc.data.cloud_account_id)
  THEN [acc EXCEPT !.data = [acc.data EXCEPT !.id = account._id],
                   !.found = TRUE,
                   !.token = AccountAuthToken(account._id)]
  ELSE acc

\* accountAcknowledge / accountUpdateAcknowledge: the account keeps the role
accountAcknowledge(accts, input) ==
  updateAccount(accts, input.lightlytics_internal_account_id, [role_arn |-> input.role_arn])

AWSAccountAckResource_Input(data) ==
  [ lightlytics_internal_account_id |-> ValueString(data.id),
    role_arn |-> ValueString(data.role_arn),
    account_type |-> "AWS", account_aliases |-> "",
    cloud_account_id |-> ValueString(data.cloud_account_id),
    stack_region |-> ValueString(data.stack_region),
    stack_id |-> "", init_stack_version |-> 1 ]

AWSAccountAckResource_UpdateInput(data) ==
  [ lightlytics_internal_account_id |-> ValueString(data.id),
    account_type |-> "AWS",
    role_arn |-> ValueString(data.role_arn),
    init_stack_version |-> 1 ]

AWSAccountAckResource_Create ==
  /\ rt = "aws_account_ack" /\ Absent
  /\ \E role \in RoleARNs, cid \in CloudIds, stack \in StackRegions,
        ok \in BOOLEAN, ok2 \in BOOLEAN :
       LET plan == AWSAccountAckResourceModel(role, cid, stack)
           lookup == GraphQL("accounts", <<>>, "", ok)
           acc == Fold(AWSAccountAckResource_LookupStep, Loop(plan), backend)
           data == acc.data
           input == AWSAccountAckResource_Input(data)
           ack == GraphQL("accountAcknowledge", input, acc.token, ok2)
       IN Respond("Create", plan,
            IF ~ok THEN Result(<<lookup>>, <<"Client Error">>, FALSE, "none", plan, backend)
            ELSE IF acc.halt = "panic"
                 THEN Result(<<lookup>>, <<>>, TRUE, "none", plan, backend)
            ELSE IF ~acc.found
                 THEN Result(<<lookup>>, <<"Resource not found">>, FALSE, "none", plan, backend)
            ELSE IF ~ok2
                 THEN Result(<<lookup, ack>>, <<"Client Error">>, FALSE, "none", data, backend)
            ELSE Result(<<lookup, ack>>, <<>>, FALSE, "set", data,
                        accountAcknowledge(backend, input)))

AWSAccountAckResource_ReadStep(acc, account) ==
  IF acc.halt # "" THEN acc
  ELSE IF account.cloud_account_id = NullStr THEN Halt(acc, "panic")
  ELSE IF account.cloud_account_id = ValueString(acc.data.cloud_account_id)
  THEN [acc EXCEPT
         !.data = [acc.data EXCEPT !.id = account._id,
                                   !.cloud_account_id = account.cloud_account_id,
                                   !.stack_region = account.stack_region],
         !.found = TRUE]
  ELSE acc

AWSAccountAckResource_Read ==
  /\ rt = "aws_account_ack" /\ Present
  /\ \E ok \in BOOLEAN :
       LET req == GraphQL("accounts", <<>>, "", ok)
           acc == Fold(AWSAccountAckResource_ReadStep, Loop(tfstate), backend)
       IN Respond("Read", NoPlan,
            IF ~ok THEN Result(<<req>>, <<"Client Error">>, FALSE, "none", tfstate, backend)
            ELSE IF acc.halt = "panic"
                 THEN Result(<<req>>, <<>>, TRUE, "none", tfstate, backend)
            ELSE IF ~acc.found
                 THEN Result(<<req>>, <<>>, FALSE, "remove", tfstate, backend)
            ELSE Result(<<req>>, <<>>, FALSE, "set", acc.data, backend))

AWSAccountAckResource_Update ==
  /\ rt = "aws_account_ack" /\ Managed
  /\ \E role \in RoleARNs, stack \in StackRegions, ok \in BOOLEAN, ok2 \in BOOLEAN :
       LET state == tfstate
           plan == [state EXCEPT !.role_arn = role, !.stack_region = stack]
           lookup == GraphQL("accounts", <<>>, "", ok)
           acc == Fold(AWSAccountAckResource_LookupStep, Loop(plan), backend)
           data == acc.data
           input == AWSAccountAckResource_UpdateInput(data)
           ack == GraphQL("accountUpdateAcknowledge", input, acc.token, ok2)
       IN Respond("Update", plan,
            IF ~ok THEN Result(<<lookup>>, <<"Client Error">>, FALSE, "none", plan, backend)
            ELSE IF acc.halt = "panic"
                 THEN Result(<<lookup>>, <<>>, TRUE, "none", plan, backend)
            ELSE IF ~acc.found
                 THEN Result(<<lookup>>, <<"Resource not found">>, FALSE, "none", plan, backend)
            ELSE IF data.role_arn = state.role_arn
                 THEN Result(<<lookup>>, <<>>, FALSE, "set", data, backend)
            ELSE IF ~ok2
                 THEN Result(<<lookup, ack>>, <<"Client Error">>, FALSE, "none", data, backend)
            ELSE Result(<<lookup, ack>>, <<>>, FALSE, "set", data,
                        accountAcknowledge(backend, input)))

\* Delete sends nothing and reports nothing
AWSAccountAckResource_Delete ==
  /\ rt = "aws_account_ack" /\ Managed
  /\ Respond("Delete", NoPlan, Result(<<>>, <<>>, FALSE, "none", tfstate, backend))

-----------------------------------------------------------------------------
(* aws_cost_ack_resource.go *)

BucketARNs == {"bucket1"}
CurPrefixes == {"cur1"}
ExternalIDs == {"ext1"}
Host == "https://host"

AWSCostAckResourceModel(cid, role, bucket, prefix, ext) ==
  [ id |-> UnknownStr, cloud_account_id |-> cid, role_arn |-> role,
    external_id |-> ext, bucket_arn |-> bucket, cur_prefix |-> prefix,
    streamsec_collection_token |-> UnknownStr ]

AWSCostAckResource_LookupStep(acc, account) ==
  IF acc.halt # "" THEN acc
  ELSE IF account.cloud_account_id = NullStr THEN Halt(acc, "panic")
  ELSE IF account.cloud_account_id = ValueString(acc.data.cloud_account_id)
  THEN [acc EXCEPT
         !.data = [acc.data EXCEPT
                     !.id = account._id,
                     !.streamsec_collection_token = CollectionToken(account._id)],
         !.found = TRUE]
  ELSE acc

AWSCostAckResource_Body(data, operation) ==
  [ operation |-> operation, template_version |-> 1, status |-> "success",
    details |-> "", role_arn |-> ValueString(data.role_arn),
    bucket_arn |-> ValueString(data.bucket_arn),
    cur_prefix |-> ValueString(data.cur_prefix),
    external_id |-> ValueString(data.external_id) ]

AWSCostAckResource_Create ==
  /\ rt = "aws_cost_ack" /\ Absent
  /\ \E cid \in CloudIds, role \in RoleARNs, bucket \in BucketARNs,
        prefix \in CurPrefixes, ext \in ExternalIDs,
        ok \in BOOLEAN, result \in RestResults :
       LET plan == AWSCostAckResourceModel(cid, role, bucket, prefix, ext)
           lookup == GraphQL("accounts", <<>>, "", ok)
           acc == Fold(AWSCostAckResource_LookupStep, Loop(plan), backend)
           data == acc.data
           ack == Rest("POST", Host \o "/api/v1/collection/cost/cft",
                       AWSCostAckResource_Body(data, "Create"),
                       ValueString(data.streamsec_collection_token), result)
       IN Respond("Create", plan,
            IF ~ok THEN Result(<<lookup>>, <<"Client Error">>, FALSE, "none", plan, backend)
            ELSE IF acc.halt = "panic"
                 THEN Result(<<lookup>>, <<>>, TRUE, "none", plan, backend)
            ELSE IF ~acc.found
                 THEN Result(<<lookup>>, <<"Resource not found">>, FALSE, "none", plan, backend)
            ELSE IF ~ack.ok
                 THEN Result(<<lookup, ack>>, <<"Client Error">>, FALSE, "none", data, backend)
            ELSE Result(<<lookup, ack>>, <<>>, FALSE, "set", data, backend))

\* AWSCostAckResource_Read dropping the resource when no account matches
AWSCostAckResource_Read_Removing ==
  /\ rt = "aws_cost_ack" /\ Present
  /\ \E ok \in BOOLEAN :
       LET req == GraphQL("accounts", <<>>, "", ok)
           acc == Fold(AWSCostAckResource_LookupStep, Loop(tfstate), backend)
       IN Respond("Read", NoPlan,
            IF ~ok THEN Result(<<req>>, <<"Client Error">>, FALSE, "none", tfstate, backend)
            ELSE IF acc.halt = "panic"
                 THEN Result(<<req>>, <<>>, TRUE, "none", tfstate, backend)
            ELSE IF ~acc.found
                 THEN Result(<<req>>, <<>>, FALSE, "remove", tfstate, backend)
            ELSE Result(<<req>>, <<>>, FALSE, "set", acc.data, backend))

AWSCostAckResource_Read ==
  /\ rt = "aws_cost_ack" /\ Present
  /\ \E ok \in BOOLEAN :
       LET req == GraphQL("accounts", <<>>, "", ok)
           acc == Fold(AWSCostAckResource_LookupStep, Loop(tfstate), backend)
       IN Respond("Read", NoPlan,
            IF ~ok THEN Result(<<req>>, <<"Client Error">>, FALSE, "none", tfstate, backend)
            ELSE IF acc.halt = "panic"
                 THEN Result(<<req>>, <<>>, TRUE, "none", tfstate, backend)
            ELSE IF ~acc.found
                 THEN Result(<<req>>, <<"Resource not found">>, FALSE, "none", tfstate, backend)
            ELSE Result(<<req>>, <<>>, FALSE, "set", acc.data, backend))

\* every attribute requires replacement: the plan of an Update is the state
AWSCostAckResource_Update ==
  /\ rt = "aws_cost_ack" /\ Managed
  /\ LET data == tfstate
     IN Respond("Update", data, Result(<<>>, <<>>, FALSE, "set", data, backend))

\* AWSCostAckResource_Delete without the check of the response's status
AWSCostAckResource_Delete_NoStatusCheck ==
  /\ rt = "aws_cost_ack" /\ Managed
  /\ \E result \in RestResults :
       LET data == tfstate
           req == Rest("POST", Host \o "/api/v1/collection/cost/cft",
                       AWSCostAckResource_Body(data, "Delete"),
                       ValueString(data.streamsec_collection_token), result)
       IN Respond("Delete", NoPlan,
            IF result = "transport"
            THEN Result(<<req>>, <<"Client Error">>, FALSE, "none", data, backend)
            ELSE Result(<<req>>, <<>>, FALSE, "none", data, backend))

AWSCostAckResource_Delete ==
  /\ rt = "aws_cost_ack" /\ Managed
  /\ \E result \in RestResults :
       LET data == tfstate
           req == Rest("POST", Host \o "/api/v1/collection/cost/cft",
                       AWSCostAckResource_Body(data, "Delete"),
                       ValueString(data.streamsec_collection_token), result)
       IN Respond("Delete", NoPlan,
            IF ~req.ok THEN Result(<<req>>, <<"Client Error">>, FALSE, "none", data, backend)
            ELSE Result(<<req>>, <<>>, FALSE, "none", data, backend))

-----------------------------------------------------------------------------
(* aws_real_time_events_ack_resource.go *)

AWSRealTimeEventsAckResourceModel(cid, region) ==
  [ id |-> UnknownStr, cloud_account_id |-> cid, region |-> region,
    streamsec_collection_token |-> UnknownStr ]

\* some region of the account's realtime_regions has the given region_name
HasRegion(account, name) ==
  /\ ~account.realtime_regions.nil
  /\ \E i \in 1..Len(account.realtime_regions.items) :
        account.realtime_regions.items[i].region_name = name

CFTEventRequestBody(data, operation) ==
  [ AccountId |-> ValueString(data.cloud_account_id),
    Region |-> ValueString(data.region),
    TemplateVersion |-> "1", operation |-> operation ]

\* the cft-event endpoint: "Create" enables the region on the account,
\* "Delete" disables it
SelectSeq2(xs, Keep(_)) ==
  LET f[i \in 0..Len(xs)] ==
        IF i = 0 THEN <<>>
        ELSE IF Keep(xs[i]) THEN Append(f[i-1], xs[i]) ELSE f[i-1]
  IN f[Len(xs)]

cftEvent(accts, id, body) ==
  [i \in 1..Len(accts) |->
     IF accts[i]._id # id THEN accts[i]
     ELSE LET old == IF accts[i].realtime_regions.nil THEN <<>>
                     ELSE accts[i].realtime_regions.items
              Other(r) == r.region_name # body.Region
          IN [accts[i] EXCEPT !.realtime_regions =
                JSONList(IF body.operation = "Create"
                         THEN Append(SelectSeq2(old, Other), [region_name |-> body.Region])
                         ELSE SelectSeq2(old, Other))]]

\* AWSRealTimeEventsAckResource_CreateStep taking the token outside the
\* comparison of cloud_account_id
AWSRealTimeEventsAckResource_CreateStep_AnyToken(acc, account) ==
  IF acc.halt # "" THEN acc
  ELSE IF account.cloud_account_id = NullStr THEN Halt(acc, "panic")
  ELSE LET seen == [acc EXCEPT !.data.streamsec_collection_token =
                                   CollectionToken(account._id)]
       IN IF account.cloud_account_id = ValueString(acc.data.cloud_account_id)
          THEN IF HasRegion(account, ValueString(acc.data.region))
               THEN Halt(acc, "Region already exists")
               ELSE [seen EXCEPT !.data.id = account._id, !.found = TRUE]
          ELSE seen

AWSRealTimeEventsAckResource_CreateStep(acc, account) ==
  IF acc.halt # "" THEN acc
  ELSE IF account.cloud_account_id = NullStr THEN Halt(acc, "panic")
  ELSE IF account.cloud_account_id = ValueString(acc.data.cloud_account_id)
  THEN IF HasRegion(account, ValueString(acc.data.region))
       THEN Halt(acc, "Region already exists")
       ELSE [acc EXCEPT
              !.data = [acc.data EXCEPT
                          !.id = account._id,
                          !.streamsec_collection_token = CollectionToken(account._id)],
              !.found = TRUE]
  ELSE acc

AWSRealTimeEventsAckResource_Create ==
  /\ rt = "aws_real_time_events_ack" /\ Absent
  /\ \E cid \in CloudIds, region \in RegionNames, ok \in BOOLEAN, result \in RestResults :
       LET plan == AWSRealTimeEventsAckResourceModel(cid, region)
           lookup == GraphQL("accounts", <<>>, "", ok)
           acc == Fold(AWSRealTimeEventsAckResource_CreateStep, Loop(plan), backend)
           data == acc.data
           ack == Rest("POST", Host \o "/api/v1/collection/cloudtrail/cft-event",
                       CFTEventRequestBody(data, "Create"),
                       ValueString(data.streamsec_collection_token), result)
       IN Respond("Create", plan,
            IF ~ok THEN Result(<<lookup>>, <<"Client Error">>, FALSE, "none", plan, backend)
            ELSE IF acc.halt = "panic"
                 THEN Result(<<lookup>>, <<>>, TRUE, "none", plan, backend)
            ELSE IF acc.halt # ""
                 THEN Result(<<lookup>>, <<acc.halt>>, FALSE, "none", plan, backend)
            ELSE IF ~acc.found
                 THEN Result(<<lookup>>, <<"Resource not found">>, FALSE, "none", plan, backend)
            ELSE IF ~ack.ok
                 THEN Result(<<lookup, ack>>, <<"Client Error">>, FALSE, "none", data, backend)
            ELSE Result(<<lookup, ack>>, <<>>, FALSE, "set", data,
                        cftEvent(backend, data.id, ack.vars)))

\* regionFound (acc.flag) is never reset between accounts
AWSRealTimeEventsAckResource_ReadStep(acc, account) ==
  IF acc.halt # "" THEN acc
  ELSE IF account.cloud_account_id = NullStr THEN Halt(acc, "panic")
  ELSE IF account.cloud_account_id = ValueString(acc.data.cloud_account_id)
  THEN LET regionFound == acc.flag \/ HasRegion(account, ValueString(acc.data.region))
       IN IF ~regionFound THEN Halt(acc, "remove")
          ELSE [acc EXCEPT
                 !.data = [acc.data EXCEPT
                             !.id = account._id,
                             !.streamsec_collection_token = CollectionToken(account._id)],
                 !.flag = TRUE,
                 !.found = TRUE]
  ELSE acc

AWSRealTimeEventsAckResource_Read ==
  /\ rt = "aws_real_time_events_ack" /\ Present
  /\ \E ok \in BOOLEAN :
       LET req == GraphQL("accounts", <<>>, "", ok)
           acc == Fold(AWSRealTimeEventsAckResource_ReadStep, Loop(tfstate), backend)
       IN Respond("Read", NoPlan,
            IF ~ok THEN Result(<<req>>, <<"Client Error">>, FALSE, "none", tfstate, backend)
            ELSE IF acc.halt = "panic"
                 THEN Result(<<req>>, <<>>, TRUE, "none", tfstate, backend)
            ELSE IF acc.halt = "remove" \/ ~acc.found
                 THEN Result(<<req>>, <<>>, FALSE, "remove", tfstate, backend)
            ELSE Result(<<req>>, <<>>, FALSE, "set", acc.data, backend))

\* an Update whose plan names another region, as if region did not require
\* replacement
AWSRealTimeEventsAckResource_Update_ChangingRegion ==
  /\ rt = "aws_real_time_events_ack" /\ Managed
  /\ \E region \in RegionNames :
       LET data == [tfstate EXCEPT !.region = region]
       IN Respond("Update", data, Result(<<>>, <<>>, FALSE, "set", data, backend))

\* every attribute requires replacement: the plan of an Update is the state
AWSRealTimeEventsAckResource_Update ==
  /\ rt = "aws_real_time_events_ack" /\ Managed
  /\ LET data == tfstate
     IN Respond("Update", data, Result(<<>>, <<>>, FALSE, "set", data, backend))

\* AWSRealTimeEventsAckResource_Delete sending its request again after a failure
AWSRealTimeEventsAckResource_Delete_Retrying ==
  /\ rt = "aws_real_time_events_ack" /\ Managed
  /\ \E result \in RestResults, again \in RestResults :
       LET data == tfstate
           req == Rest("POST", Host \o "/api/v1/collection/cloudtrail/cft-event",
                       CFTEventRequestBody(data, "Delete"),
                       ValueString(data.streamsec_collection_token), result)
           retry == [req EXCEPT !.result = again, !.ok = (again = "200")]
           reqs == IF req.ok THEN <<req>> ELSE <<req, retry>>
       IN Respond("Delete", NoPlan,
            IF ~reqs[Len(reqs)].ok
            THEN Result(reqs, <<"Client Error">>, FALSE, "none", data, backend)
            ELSE Result(reqs, <<>>, FALSE, "none", data,
                        cftEvent(backend, ValueString(data.id), req.vars)))

AWSRealTimeEventsAckResource_Delete ==
  /\ rt = "aws_real_time_events_ack" /\ Managed
  /\ \E result \in RestResults :
       LET data == tfstate
           req == Rest("POST", Host \o "/api/v1/collection/cloudtrail/cft-event",
                       CFTEventRequestBody(data, "Delete"),
                       ValueString(data.streamsec_collection_token), result)
       IN Respond("Delete", NoPlan,
            IF ~req.ok THEN Result(<<req>>, <<"Client Error">>, FALSE, "none", data, backend)
            ELSE Result(<<req>>, <<>>, FALSE, "none", data,
                        cftEvent(backend, ValueString(data.id), req.vars)))

-----------------------------------------------------------------------------
(* aws_response_ack_resource.go *)

RunbookLists == {<<>>, <<PlainElem>>}
PolicyToRoleMaps == {"map1"}

AWSResponseAckResourceModel(cid, region, role, runbooks, roles, policies, ext) ==
  [ id |-> UnknownStr, cloud_account_id |-> cid, region |-> region,
    streamsec_collection_token |-> UnknownStr, role_arn |-> role,
    runbook_list |-> runbooks, runbook_role_list |-> roles,
    policy_to_role_map |-> policies, external_id |-> ext ]

\* the remediation endpoints: the acknowledgement enables remediation on the
\* account, the deletion disables it on the accounts of the cloud account
remediationAcknowledge(accts, id, body) ==
  updateAccount(accts, id,
    [remediation |-> [nil |-> FALSE, status |-> "READY", role_arn |-> "role0",
                      runbook_list |-> body.runbook_list, location |-> body.location]])

remediationDelete(accts, cid) ==
  [i \in 1..Len(accts) |->
     IF accts[i].cloud_account_id = cid
     THEN [accts[i] EXCEPT !.remediation = NoRemediation]
     ELSE accts[i]]

\* x.([]attr.Value) for a value x decoded from JSON: x holds nil or a
\* []interface{}, never a []attr.Value, so the assertion panics
AssertAttrValues(x) == FALSE

\* a matching account that passes the READY check ends in the assertions on
\* account["remediation"], which panic on nil and on the runbook list
AWSResponseAckResource_CreateStep(acc, account) ==
  IF acc.halt # "" THEN acc
  ELSE IF account.cloud_account_id = NullStr THEN Halt(acc, "panic")
  ELSE IF account.cloud_account_id = ValueString(acc.data.cloud_account_id)
  THEN IF ~account.remediation.nil /\ account.remediation.status = NullStr
       THEN Halt(acc, "panic")
       ELSE IF ~account.remediation.nil /\ account.remediation.status = "READY"
       THEN Halt(acc, "Account remediation is already enabled")
       ELSE IF account.remediation.nil
       THEN Halt(acc, "panic")
       ELSE IF ~AssertAttrValues(account.remediation.runbook_list)
       THEN Halt(acc, "panic")
       ELSE [acc EXCEPT
              !.data = [acc.data EXCEPT
                          !.id = account._id,
                          !.streamsec_collection_token = CollectionToken(account._id),
                          !.role_arn = account.remediation.role_arn],
              !.found = TRUE]
  ELSE acc

RemediationRequestBody(data) ==
  [ AccountId |-> ValueString(data.cloud_account_id),
    Region |-> ValueString(data.region),
    TemplateVersion |-> "1",
    ExternalId |-> ValueString(data.external_id),
    RoleARN |-> ValueString(data.role_arn),
    StackId |-> "terraform",
    RunbookList |-> ConvertToStringSlice(data.runbook_list),
    RunbookRoleList |-> ConvertToStringSlice(data.runbook_role_list),
    PolicyToRoleMap |-> data.policy_to_role_map ]

AWSResponseAckResource_Create ==
  /\ rt = "aws_response_ack" /\ Absent
  /\ \E cid \in CloudIds, region \in {"r1"}, role \in {"role1"},
        runbooks \in RunbookLists, policies \in PolicyToRoleMaps, ext \in ExternalIDs,
        ok \in BOOLEAN, result \in RestResults :
       LET plan == AWSResponseAckResourceModel(cid, region, role, runbooks, runbooks,
                                               policies, ext)
           lookup == GraphQL("accounts", <<>>, "", ok)
           acc == Fold(AWSResponseAckResource_CreateStep, Loop(plan), backend)
           data == acc.data
           ack == Rest("POST", Host \o "/api/accounts/accounts/remediation-acknowledge",
                       RemediationRequestBody(data),
                       ValueString(data.streamsec_collection_token), result)
       IN Respond("Create", plan,
            IF ~ok THEN Result(<<lookup>>, <<"Client Error">>, FALSE, "none", plan, backend)
            ELSE IF acc.halt = "panic"
                 THEN Result(<<lookup>>, <<>>, TRUE, "none", plan, backend)
            ELSE IF acc.halt # ""
                 THEN Result(<<lookup>>, <<acc.halt>>, FALSE, "none", plan, backend)
            ELSE IF ~acc.found
                 THEN Result(<<lookup>>, <<"Resource not found">>, FALSE, "none", plan, backend)
            ELSE IF ~ack.ok
                 THEN Result(<<lookup, ack>>, <<"Client Error">>, FALSE, "none", data, backend)
            ELSE Result(<<lookup, ack>>, <<>>, FALSE, "set", data, backend))

\* accountFound (acc.found) is set by a READY account and never reset
AWSResponseAckResource_ReadStep(acc, account) ==
  IF acc.halt # "" THEN acc
  ELSE IF account.cloud_account_id = NullStr THEN Halt(acc, "panic")
  ELSE IF account.cloud_account_id = ValueString(acc.data.cloud_account_id)
  THEN IF ~account.remediation.nil /\ account.remediation.status = NullStr
       THEN Halt(acc, "panic")
       ELSE LET accountFound ==
                  acc.found \/ (~account.remediation.nil /\ account.remediation.status = "READY")
            IN IF ~accountFound THEN Halt(acc, "remove")
               ELSE IF account.remediation.nil THEN Halt(acc, "panic")
               ELSE IF ~AssertAttrValues(account.remediation.runbook_list)
               THEN Halt(acc, "panic")
               ELSE [acc EXCEPT
                      !.data = [acc.data EXCEPT
                                  !.id = account._id,
                                  !.streamsec_collection_token = CollectionToken(account._id),
                                  !.role_arn = account.remediation.role_arn],
                      !.found = TRUE]
  ELSE acc

AWSResponseAckResource_Read ==
  /\ rt = "aws_response_ack" /\ Present
  /\ \E ok \in BOOLEAN :
       LET req == GraphQL("accounts", <<>>, "", ok)
           acc == Fold(AWSResponseAckResource_ReadStep, Loop(tfstate), backend)
       IN Respond("Read", NoPlan,
            IF ~ok THEN Result(<<req>>, <<"Client Error">>, FALSE, "none", tfstate, backend)
            ELSE IF acc.halt = "panic"
                 THEN Result(<<req>>, <<>>, TRUE, "none", tfstate, backend)
            ELSE IF acc.halt = "remove" \/ ~acc.found
                 THEN Result(<<req>>, <<>>, FALSE, "remove", tfstate, backend)
            ELSE Result(<<req>>, <<>>, FALSE, "set", acc.data, backend))

\* Update sends nothing and stores the plan
AWSResponseAckResource_Update ==
  /\ rt = "aws_response_ack" /\ Managed
  /\ \E runbooks \in RunbookLists, policies \in PolicyToRoleMaps, ext \in ExternalIDs :
       LET data == [tfstate EXCEPT !.runbook_list = runbooks,
                                   !.runbook_role_list = runbooks,
                                   !.policy_to_role_map = policies,
                                   !.external_id = ext]
       IN Respond("Update", data, Result(<<>>, <<>>, FALSE, "set", data, backend))

\* No Create or Read of this resource ever stores a state, so the state Delete
\* gets is an imported one, applied without a refresh.
AWSResponseAckResource_Delete ==
  /\ rt = "aws_response_ack" /\ Present
  /\ \E result \in RestResults :
       LET data == tfstate
           req == Rest("DELETE", Host \o "/api/accounts/accounts/remediation/"
                                      \o ValueString(data.cloud_account_id),
                       <<>>, ValueString(data.streamsec_collection_token), result)
       IN Respond("Delete", NoPlan,
            IF ~req.ok THEN Result(<<req>>, <<"Client Error">>, FALSE, "none", data, backend)
            ELSE Result(<<req>>, <<>>, FALSE, "none", data,
                        remediationDelete(backend, ValueString(data.cloud_account_id))))

-----------------------------------------------------------------------------
(* gcp_response_ack_resource.go *)

TemplateVersions == {"v1"}
Locations == {"loc1", "loc2"}

GCPResponseAckResourceModel(cid, version, runbooks, location) ==
  [ id |-> UnknownStr, cloud_account_id |-> cid, account_token |-> UnknownStr,
    template_version |-> version, runbook_list |-> runbooks, location |-> location ]

GCPRemediationRequestBody(data) ==
  [ gcp_project_id |-> ValueString(data.cloud_account_id),
    template_version |-> ValueString(data.template_version),
    runbook_list |-> ConvertToStringSlice(data.runbook_list),
    location |-> ValueString(data.location) ]

GCPResponseAckResource_CreateStep(acc, account) ==
  IF acc.halt # "" THEN acc
  ELSE IF account.cloud_account_id = NullStr THEN Halt(acc, "panic")
  ELSE IF account.cloud_account_id = ValueString(acc.data.cloud_account_id)
  THEN IF /\ ~account.remediation.nil
          /\ account.remediation.status # NullStr
          /\ account.remediation.status = "READY"
       THEN Halt(acc, "Account remediation is already enabled")
       ELSE [acc EXCEPT
              !.data = [acc.data EXCEPT !.id = account._id,
                                        !.account_token = AccountToken(account._id)],
              !.found = TRUE]
  ELSE acc

GCPResponseAckResource_Create ==
  /\ rt = "gcp_response_ack" /\ Absent
  /\ \E cid \in CloudIds, version \in TemplateVersions, runbooks \in RunbookLists,
        location \in Locations, ok \in BOOLEAN, result \in RestResults :
       LET plan == GCPResponseAckResourceModel(cid, version, runbooks, location)
           lookup == GraphQL("accounts", <<>>, "", ok)
           acc == Fold(GCPResponseAckResource_CreateStep, Loop(plan), backend)
           data == acc.data
           ack == Rest("POST", Host \o "/gcp/remediation-acknowledge",
                       GCPRemediationRequestBody(data),
                       ValueString(data.account_token), result)
       IN Respond("Create", plan,
            IF ~ok THEN Result(<<lookup>>, <<"Client Error">>, FALSE, "none", plan, backend)
            ELSE IF acc.halt = "panic"
                 THEN Result(<<lookup>>, <<>>, TRUE, "none", plan, backend)
            ELSE IF acc.halt # ""
                 THEN Result(<<lookup>>, <<acc.halt>>, FALSE, "none", plan, backend)
            ELSE IF ~acc.found
                 THEN Result(<<lookup>>, <<"Resource not found">>, FALSE, "none", plan, backend)
            ELSE IF ~ack.ok
                 THEN Result(<<lookup, ack>>, <<"Client Error">>, FALSE, "none", data, backend)
            ELSE Result(<<lookup, ack>>, <<>>, FALSE, "set", data,
                        remediationAcknowledge(backend, data.id, ack.vars)))

\* accountFound (acc.found) is set by a READY account and never reset
GCPResponseAckResource_ReadStep(acc, account) ==
  IF acc.halt # "" THEN acc
  ELSE IF account.cloud_account_id = NullStr THEN Halt(acc, "panic")
  ELSE IF account.cloud_account_id = ValueString(acc.data.cloud_account_id)
  THEN IF ~account.remediation.nil /\ account.remediation.status = NullStr
       THEN Halt(acc, "panic")
       ELSE LET accountFound ==
                  acc.found \/ (~account.remediation.nil /\ account.remediation.status = "READY")
            IN IF ~accountFound THEN Halt(acc, "remove")
               ELSE IF account.remediation.nil THEN Halt(acc, "panic")
               ELSE [acc EXCEPT
                      !.data = [acc.data EXCEPT
                         !.id = account._id,
                         !.account_token = AccountToken(account._id),
                         !.runbook_list =
                            ConvertInterfaceToTypesList(account.remediation.runbook_list),
                         !.location = account.remediation.location],
                      !.found = TRUE]
  ELSE acc

GCPResponseAckResource_Read ==
  /\ rt = "gcp_response_ack" /\ Present
  /\ \E ok \in BOOLEAN :
       LET req == GraphQL("accounts", <<>>, "", ok)
           acc == Fold(GCPResponseAckResource_ReadStep, Loop(tfstate), backend)
       IN Respond("Read", NoPlan,
            IF ~ok THEN Result(<<req>>, <<"Client Error">>, FALSE, "none", tfstate, backend)
            ELSE IF acc.halt = "panic"
                 THEN Result(<<req>>, <<>>, TRUE, "none", tfstate, backend)
            ELSE IF acc.halt = "remove" \/ ~acc.found
                 THEN Result(<<req>>, <<>>, FALSE, "remove", tfstate, backend)
            ELSE Result(<<req>>, <<>>, FALSE, "set", acc.data, backend))

GCPResponseAckResource_UpdateStep(acc, account) ==
  IF acc.halt # "" THEN acc
  ELSE IF account.cloud_account_id = NullStr THEN Halt(acc, "panic")
  ELSE IF account.cloud_account_id = ValueString(acc.data.cloud_account_id)
  THEN [acc EXCEPT
         !.data = [acc.data EXCEPT !.id = account._id,
                                   !.account_token = AccountToken(account._id)],
         !.found = TRUE]
  ELSE acc

GCPResponseAckResource_Update ==
  /\ rt = "gcp_response_ack" /\ Managed
  /\ \E version \in TemplateVersions, runbooks \in RunbookLists, location \in Locations,
        ok \in BOOLEAN, result \in RestResults :
       LET plan == [tfstate EXCEPT !.template_version = version,
                                   !.runbook_list = runbooks, !.location = location]
           lookup == GraphQL("accounts", <<>>, "", ok)
           acc == Fold(GCPResponseAckResource_UpdateStep, Loop(plan), backend)
           data == acc.data
           ack == Rest("POST", Host \o "/gcp/remediation-acknowledge",
                       GCPRemediationRequestBody(data),
                       ValueString(data.account_token), result)
       IN Respond("Update", plan,
            IF ~ok THEN Result(<<lookup>>, <<"Client Error">>, FALSE, "none", plan, backend)
            ELSE IF acc.halt = "panic"
                 THEN Result(<<lookup>>, <<>>, TRUE, "none", plan, backend)
            ELSE IF ~acc.found
                 THEN Result(<<lookup>>, <<"Resource not found">>, FALSE, "none", plan, backend)
            ELSE IF ~ack.ok
                 THEN Result(<<lookup, ack>>, <<"Client Error">>, FALSE, "none", data, backend)
            ELSE Result(<<lookup, ack>>, <<>>, FALSE, "set", data,
                        remediationAcknowledge(backend, data.id, ack.vars)))

GCPResponseAckResource_Delete ==
  /\ rt = "gcp_response_ack" /\ Managed
  /\ \E result \in RestResults :
       LET data == tfstate
           req == Rest("DELETE", Host \o "/api/accounts/accounts/remediation/"
                                      \o ValueString(data.cloud_account_id),
                       <<>>, ValueString(data.account_token), result)
       IN Respond("Delete", NoPlan,
            IF ~req.ok THEN Result(<<req>>, <<"Client Error">>, FALSE, "none", data, backend)
            ELSE Result(<<req>>, <<>>, FALSE, "none", data,
                        remediationDelete(backend, ValueString(data.cloud_account_id))))

-----------------------------------------------------------------------------
(* gcp_project_ack_resource.go *)

GCPProjectAckResourceModel(project, email, key) ==
  [ id |-> UnknownStr, project_id |-> project, client_email |-> email,
    private_key |-> key, account_token |-> UnknownStr ]

GCPProjectAckRequestBody(data) ==
  [ account_type |-> "GCP", project_id |-> ValueString(data.project_id),
    client_email |-> ValueString(data.client_email),
    private_key |-> ValueString(data.private_key) ]

\* the account-acknowledge endpoints: the account keeps the credentials
gcpAccountAcknowledge(accts, id, body) ==
  updateAccount(accts, id, [client_email |-> body.client_email,
                            private_key |-> body.private_key])

GCPProjectAckResource_CreateStep(acc, account) ==
  IF acc.halt # "" THEN acc
  ELSE IF account.cloud_account_id = NullStr THEN Halt(acc, "panic")
  ELSE IF account.cloud_account_id = ValueString(acc.data.project_id)
  THEN [acc EXCEPT
         !.data = [acc.data EXCEPT !.id = account._id,
                                   !.account_token = AccountToken(account._id)],
         !.found = TRUE]
  ELSE acc

GCPProjectAckResource_Create ==
  /\ rt = "gcp_project_ack" /\ Absent
  /\ \E project \in CloudIds, email \in Emails, key \in PrivateKeys,
        ok \in BOOLEAN, result \in RestResults :
       LET plan == GCPProjectAckResourceModel(project, email, key)
           lookup == GraphQL("accounts", <<>>, "", ok)
           acc == Fold(GCPProjectAckResource_CreateStep, Loop(plan), backend)
           data == acc.data
           ack == Rest("POST", Host \o "/gcp/account-acknowledge",
                       GCPProjectAckRequestBody(data),
                       ValueString(data.account_token), result)
       IN Respond("Create", plan,
            IF ~ok THEN Result(<<lookup>>, <<"Client Error">>, FALSE, "none", plan, backend)
            ELSE IF acc.halt = "panic"
                 THEN Result(<<lookup>>, <<>>, TRUE, "none", plan, backend)
            ELSE IF ~acc.found
                 THEN Result(<<lookup>>, <<"Resource not found">>, FALSE, "none", plan, backend)
            ELSE IF ~ack.ok
                 THEN Result(<<lookup, ack>>, <<"Client Error">>, FALSE, "none", data, backend)
            ELSE Result(<<lookup, ack>>, <<>>, FALSE, "set", data,
                        gcpAccountAcknowledge(backend, data.id, ack.vars)))

GCPProjectAckResource_ReadStep(acc, account) ==
  IF acc.halt # "" THEN acc
  ELSE IF account.cloud_account_id = NullStr THEN Halt(acc, "panic")
  ELSE IF account.cloud_account_id = ValueString(acc.data.project_id)
  THEN [acc EXCEPT
         !.data = [acc.data EXCEPT !.account_token = AccountToken(account._id),
                                   !.id = account._id,
                                   !.client_email = account.client_email],
         !.found = TRUE]
  ELSE acc

GCPProjectAckResource_Read ==
  /\ rt = "gcp_project_ack" /\ Present
  /\ \E ok \in BOOLEAN :
       LET req == GraphQL("accounts", <<>>, "", ok)
           acc == Fold(GCPProjectAckResource_ReadStep, Loop(tfstate), backend)
       IN Respond("Read", NoPlan,
            IF ~ok THEN Result(<<req>>, <<"Client Error">>, FALSE, "none", tfstate, backend)
            ELSE IF acc.halt = "panic"
                 THEN Result(<<req>>, <<>>, TRUE, "none", tfstate, backend)
            ELSE IF ~acc.found
                 THEN Result(<<req>>, <<"Resource not found">>, FALSE, "none", tfstate, backend)
            ELSE Result(<<req>>, <<>>, FALSE, "set", acc.data, backend))

GCPProjectAckResource_Update ==
  /\ rt = "gcp_project_ack" /\ Managed
  /\ \E project \in CloudIds, email \in Emails, key \in PrivateKeys :
       LET state == tfstate
           data == [state EXCEPT !.project_id = project, !.client_email = email,
                                 !.private_key = key]
           changed == data.client_email # state.client_email
                        \/ data.private_key # state.private_key
           fields == [ client_email |-> ValueString(data.client_email),
                       private_key |-> ValueString(data.private_key) ]
           variables == [id |-> ValueString(data.id), account |-> fields]
       IN IF changed
          THEN \E ok \in DoRequestResults(IndexOfId(backend, variables.id) # 0) :
                 LET req == GraphQL("updateAccount", variables, "", ok)
                 IN Respond("Update", data,
                      IF ~ok THEN Result(<<req>>, <<"Client Error">>, FALSE, "none", data, backend)
                      ELSE Result(<<req>>, <<>>, FALSE, "set", data,
                                  updateAccount(backend, variables.id, fields)))
          ELSE Respond("Update", data, Result(<<>>, <<>>, FALSE, "set", data, backend))

\* Delete sends nothing and reports nothing
GCPProjectAckResource_Delete ==
  /\ rt = "gcp_project_ack" /\ Managed
  /\ Respond("Delete", NoPlan, Result(<<>>, <<>>, FALSE, "none", tfstate, backend))

-----------------------------------------------------------------------------
(* AzureTenantAckResource (azure_tenant_ack) *)

ClientIDs == {"cl1", "cl2"}
ClientSecrets == {"s1"}
OtherElem == <<"b">>
\* subscription ids are validated against a pattern that admits no quote
SubscriptionLists == {<<PlainElem>>, <<PlainElem, OtherElem>>, <<OtherElem, PlainElem>>}

AzureTenantAckResourceModel(tenant, client, secret, subs) ==
  [ id |-> UnknownStr, tenant_id |-> tenant, client_id |-> client,
    client_secret |-> secret, subscriptions |-> subs, account_token |-> UnknownStr ]

\* strings.Join
RECURSIVE Join(_, _)
Join(elems, sep) ==
  IF elems = <<>> THEN <<>>
  ELSE IF Len(elems) = 1 THEN elems[1]
  ELSE elems[1] \o sep \o Join(Tail(elems), sep)

AzureAckRequestBody(data) ==
  [ account_type |-> "Azure", tenant_id |-> ValueString(data.tenant_id),
    client_id |-> ValueString(data.client_id),
    client_secret |-> ValueString(data.client_secret),
    subscriptions |-> Join(ConvertToStringSlice(data.subscriptions), <<",">>) ]

\* the backend keeps a subscription as an object with an id
SubscriptionObjects(ids) == JSONList([i \in 1..Len(ids) |-> [id |-> ids[i]]])

azureAccountAcknowledge(accts, id, data) ==
  updateAccount(accts, id,
    [ client_id |-> ValueString(data.client_id),
      client_secret |-> ValueString(data.client_secret),
      subscriptions |-> SubscriptionObjects(ConvertToStringSlice(data.subscriptions)) ])

AzureTenantAckResource_CreateStep(acc, account) ==
  IF acc.halt # "" THEN acc
  ELSE IF account.cloud_account_id = NullStr THEN Halt(acc, "panic")
  ELSE IF account.cloud_account_id = ValueString(acc.data.tenant_id)
  THEN [acc EXCEPT
         !.data = [acc.data EXCEPT !.id = account._id,
                                   !.account_token = AccountToken(account._id)],
         !.found = TRUE]
  ELSE acc

AzureTenantAckResource_Create ==
  /\ rt = "azure_tenant_ack" /\ Absent
  /\ \E tenant \in CloudIds, client \in ClientIDs, secret \in ClientSecrets,
        subs \in SubscriptionLists, ok \in BOOLEAN, result \in RestResults :
       LET plan == AzureTenantAckResourceModel(tenant, client, secret, subs)
           lookup == GraphQL("accounts", <<>>, "", ok)
           acc == Fold(AzureTenantAckResource_CreateStep, Loop(plan), backend)
           data == acc.data
           ack == Rest("POST", Host \o "/azure/account-acknowledge",
                       AzureAckRequestBody(data),
                       ValueString(data.account_token), result)
       IN Respond("Create", plan,
            IF ~ok THEN Result(<<lookup>>, <<"Client Error">>, FALSE, "none", plan, backend)
            ELSE IF acc.halt = "panic"
                 THEN Result(<<lookup>>, <<>>, TRUE, "none", plan, backend)
            ELSE IF ~acc.found
                 THEN Result(<<lookup>>, <<"Resource not found">>, FALSE, "none", plan, backend)
            ELSE IF ~ack.ok
                 THEN Result(<<lookup, ack>>, <<"Client Error">>, FALSE, "none", data, backend)
            ELSE Result(<<lookup, ack>>, <<>>, FALSE, "set", data,
                        azureAccountAcknowledge(backend, data.id, data)))

AzureTenantAckResource_ReadStep(acc, account) ==
  IF acc.halt # "" THEN acc
  ELSE IF account.cloud_account_id = NullStr THEN Halt(acc, "panic")
  ELSE IF account.cloud_account_id = ValueString(acc.data.tenant_id)
  THEN LET subscriptionIDs ==
             [i \in 1..Len(account.subscriptions.items) |-> account.subscriptions.items[i].id]
       IN [acc EXCEPT
            !.data = [acc.data EXCEPT
               !.subscriptions = IF ~account.subscriptions.nil
                                 THEN ConvertStringsArrayToTypesList(subscriptionIDs)
                                 ELSE <<>>,
               !.account_token = AccountToken(account._id),
               !.id = account._id],
            !.found = TRUE]
  ELSE acc

AzureTenantAckResource_Read ==
  /\ rt = "azure_tenant_ack" /\ Present
  /\ \E ok \in BOOLEAN :
       LET req == GraphQL("accounts", <<>>, "", ok)
           acc == Fold(AzureTenantAckResource_ReadStep, Loop(tfstate), backend)
       IN Respond("Read", NoPlan,
            IF ~ok THEN Result(<<req>>, <<"Client Error">>, FALSE, "none", tfstate, backend)
            ELSE IF acc.halt = "panic"
                 THEN Result(<<req>>, <<>>, TRUE, "none", tfstate, backend)
            ELSE IF ~acc.found
                 THEN Result(<<req>>, <<"Resource not found">>, FALSE, "none", tfstate, backend)
            ELSE Result(<<req>>, <<>>, FALSE, "set", acc.data, backend))

AzureTenantAckResource_Update ==
  /\ rt = "azure_tenant_ack" /\ Managed
  /\ \E tenant \in CloudIds, client \in ClientIDs, secret \in ClientSecrets,
        subs \in SubscriptionLists :
       LET state == tfstate
           data == [state EXCEPT !.tenant_id = tenant, !.client_id = client,
                                 !.client_secret = secret, !.subscriptions = subs]
           changed == \/ ~EqualListValues(data.subscriptions, state.subscriptions)
                      \/ data.client_id # state.client_id
                      \/ data.client_secret # state.client_secret
           fields == [ subscriptions |-> ConvertToStringSlice(data.subscriptions),
                       client_id |-> ValueString(data.client_id),
                       client_secret |-> ValueString(data.client_secret) ]
           variables == [id |-> ValueString(data.id), account |-> fields]
       IN IF changed
          THEN \E ok \in DoRequestResults(IndexOfId(backend, variables.id) # 0) :
                 LET req == GraphQL("updateAccount", variables, "", ok)
                 IN Respond("Update", data,
                      IF ~ok THEN Result(<<req>>, <<"Client Error">>, FALSE, "none", data, backend)
                      ELSE Result(<<req>>, <<>>, FALSE, "set", data,
                                  azureAccountAcknowledge(backend, variables.id, data)))
          ELSE Respond("Update", data, Result(<<>>, <<>>, FALSE, "set", data, backend))

\* Delete sends nothing and reports nothing
AzureTenantAckResource_Delete ==
  /\ rt = "azure_tenant_ack" /\ Managed
  /\ Respond("Delete", NoPlan, Result(<<>>, <<>>, FALSE, "none", tfstate, backend))

-----------------------------------------------------------------------------
(* azure_tenant_data_source.go *)

AzureTenantDataSourceModel(tenant) ==
  [ id |-> NullStr, tenant_id |-> tenant, display_name |-> NullStr,
    template_url |-> NullStr, account_token |-> NullStr ]

\* AzureTenantDataSource_ReadStep without the check for a null cloud_account_id
AzureTenantDataSource_ReadStep_Unchecked(acc, account) ==
  IF acc.halt # "" THEN acc
  ELSE IF account.cloud_account_id = NullStr THEN Halt(acc, "panic")
  ELSE IF account.cloud_account_id = ValueString(acc.data.tenant_id)
  THEN IF account.status = "DELETING" THEN Halt(acc, "Resource status is DELETING")
       ELSE [acc EXCEPT
              !.data = [acc.data EXCEPT !.id = account._id,
                                        !.display_name = account.display_name,
                                        !.template_url = TemplateURL(account._id),
                                        !.account_token = AccountToken(account._id)],
              !.found = TRUE]
  ELSE acc

AzureTenantDataSource_ReadStep(acc, account) ==
  IF acc.halt # "" THEN acc
  ELSE IF /\ account.cloud_account_id # NullStr
          /\ account.cloud_account_id = ValueString(acc.data.tenant_id)
  THEN IF account.status = "DELETING" THEN Halt(acc, "Resource status is DELETING")
       ELSE [acc EXCEPT
              !.data = [acc.data EXCEPT !.id = account._id,
                                        !.display_name = account.display_name,
                                        !.template_url = TemplateURL(account._id),
                                        !.account_token = AccountToken(account._id)],
              !.found = TRUE]
  ELSE acc

AzureTenantDataSource_Read ==
  /\ rt = "data.azure_tenant"
  /\ \E tenant \in CloudIds, ok \in BOOLEAN :
       LET config == AzureTenantDataSourceModel(tenant)
           req == GraphQL("accounts", <<>>, "", ok)
           acc == Fold(AzureTenantDataSource_ReadStep, Loop(config), backend)
       IN Respond("Read", config,
            IF ~ok THEN Result(<<req>>, <<"Client Error">>, FALSE, "none", config, backend)
            ELSE IF acc.halt # ""
                 THEN Result(<<req>>, <<acc.halt>>, FALSE, "none", config, backend)
            ELSE IF ~acc.found
                 THEN Result(<<req>>, <<"Resource not found">>, FALSE, "none", config, backend)
            ELSE Result(<<req>>, <<>>, FALSE, "set", acc.data, backend))

-----------------------------------------------------------------------------
(* gcp_project_data_source.go, first half: GCPProjectDataSource *)

GCPProjectDataSourceModel(project) ==
  [ id |-> NullStr, project_id |-> project, display_name |-> NullStr,
    account_token |-> NullStr ]

GCPProjectDataSource_ReadStep(acc, account) ==
  IF acc.halt # "" THEN acc
  ELSE IF account.cloud_account_id = NullStr THEN Halt(acc, "panic")
  ELSE IF account.cloud_account_id = ValueString(acc.data.project_id)
  THEN IF account.status = "DELETING" THEN Halt(acc, "Resource status is DELETING")
       ELSE [acc EXCEPT
              !.data = [acc.data EXCEPT !.id = account._id,
                                        !.display_name = account.display_name,
                                        !.account_token = AccountToken(account._id)],
              !.found = TRUE]
  ELSE acc

GCPProjectDataSource_Read ==
  /\ rt = "data.gcp_project"
  /\ \E project \in CloudIds, ok \in BOOLEAN :
       LET config == GCPProjectDataSourceModel(project)
           req == GraphQL("accounts", <<>>, "", ok)
           acc == Fold(GCPProjectDataSource_ReadStep, Loop(config), backend)
       IN Respond("Read", config,
            IF ~ok THEN Result(<<req>>, <<"Client Error">>, FALSE, "none", config, backend)
            ELSE IF acc.halt = "panic"
                 THEN Result(<<req>>, <<>>, TRUE, "none", config, backend)
            ELSE IF acc.halt # ""
                 THEN Result(<<req>>, <<acc.halt>>, FALSE, "none", config, backend)
            ELSE IF ~acc.found
                 THEN Result(<<req>>, <<>>, FALSE, "remove", config, backend)
            ELSE Result(<<req>>, <<>>, FALSE, "set", acc.data, backend))

-----------------------------------------------------------------------------
(* gcp_project_data_source.go, second half: AWSAccountDataSource *)

AWSAccountDataSourceModel(cid) ==
  [ id |-> NullStr, cloud_account_id |-> cid, display_name |-> NullStr,
    cloud_regions |-> <<>>, template_url |-> NullStr, external_id |-> NullStr,
    streamsec_collection_token |-> NullStr, account_auth_token |-> NullStr ]

AWSAccountDataSource_ReadStep(acc, account) ==
  IF acc.halt # "" THEN acc
  ELSE IF account.cloud_account_id = NullStr THEN Halt(acc, "panic")
  ELSE IF account.cloud_account_id = ValueString(acc.data.cloud_account_id)
  THEN IF account.status = "DELETING" THEN Halt(acc, "Resource status is DELETING")
       ELSE [acc EXCEPT
              !.data = [acc.data EXCEPT
                 !.id = account._id,
                 !.display_name = account.display_name,
                 !.cloud_regions = ConvertInterfaceToTypesList(account.cloud_regions),
                 !.template_url = TemplateURL(account._id),
                 !.external_id = ExternalID(account._id),
                 !.streamsec_collection_token = CollectionToken(account._id),
                 !.account_auth_token = AccountAuthToken(account._id)],
              !.found = TRUE]
  ELSE acc

\* AWSAccountDataSource_Read storing the name it read back on the account
AWSAccountDataSource_Read_Writing ==
  /\ rt = "data.aws_account"
  /\ \E cid \in CloudIds, ok \in BOOLEAN :
       LET config == AWSAccountDataSourceModel(cid)
           req == GraphQL("accounts", <<>>, "", ok)
           acc == Fold(AWSAccountDataSource_ReadStep, Loop(config), backend)
           fields == [display_name |-> "read"]
           write == GraphQL("updateAccount",
                            [id |-> ValueString(acc.data.id), account |-> fields], "", TRUE)
       IN Respond("Read", config,
            IF ~ok THEN Result(<<req>>, <<"Client Error">>, FALSE, "none", config, backend)
            ELSE IF acc.halt = "panic"
                 THEN Result(<<req>>, <<>>, TRUE, "none", config, backend)
            ELSE IF acc.halt # ""
                 THEN Result(<<req>>, <<acc.halt>>, FALSE, "none", config, backend)
            ELSE IF ~acc.found
                 THEN Result(<<req>>, <<>>, FALSE, "remove", config, backend)
            ELSE Result(<<req, write>>, <<>>, FALSE, "set", acc.data,
                        updateAccount(backend, ValueString(acc.data.id), fields)))

AWSAccountDataSource_Read ==
  /\ rt = "data.aws_account"
  /\ \E cid \in CloudIds, ok \in BOOLEAN :
       LET config == AWSAccountDataSourceModel(cid)
           req == GraphQL("accounts", <<>>, "", ok)
           acc == Fold(AWSAccountDataSource_ReadStep, Loop(config), backend)
       IN Respond("Read", config,
            IF ~ok THEN Result(<<req>>, <<"Client Error">>, FALSE, "none", config, backend)
            ELSE IF acc.halt = "panic"
                 THEN Result(<<req>>, <<>>, TRUE, "none", config, backend)
            ELSE IF acc.halt # ""
                 THEN Result(<<req>>, <<acc.halt>>, FALSE, "none", config, backend)
            ELSE IF ~acc.found
                 THEN Result(<<req>>, <<>>, FALSE, "remove", config, backend)
            ELSE Result(<<req>>, <<>>, FALSE, "set", acc.data, backend))

-----------------------------------------------------------------------------
(* ImportState *)

ListAttributes == {"cloud_regions", "subscriptions", "runbook_list", "runbook_role_list"}

\* the state an import starts from: every attribute null
NullModel(model) ==
  [f \in DOMAIN model |-> IF f \in ListAttributes THEN <<>> ELSE NullStr]

\* resource.ImportStatePassthroughID: the identifier becomes the attribute;
\* an attribute the schema lacks is an error
ImportStatePassthroughID(model, attribute, id) ==
  IF attribute \in DOMAIN model
  THEN Result(<<>>, <<>>, FALSE, "set", [NullModel(model) EXCEPT ![attribute] = id], backend)
  ELSE Result(<<>>, <<"State Write Error">>, FALSE, "none", NoState, backend)

\* identifiers given to terraform import: one the backend gave an object,
\* and a cloud account id
ImportIds == {"a1", "c1"}

AWSAccountResource_ImportState ==
  /\ rt = "aws_account" /\ Absent
  /\ \E id \in ImportIds :
       Respond("ImportState", NoPlan,
         ImportStatePassthroughID(AWSAccountResourceModel("", "", <<>>, ""), "id", id))

AzureTenantResource_ImportState ==
  /\ rt = "azure_tenant" /\ Absent
  /\ \E id \in ImportIds :
       Respond("ImportState", NoPlan,
         ImportStatePassthroughID(AzureTenantResourceModel(""), "id", id))

\* the schema of gcp_project has no attribute project_id
GCPProjectResource_ImportState ==
  /\ rt = "gcp_project" /\ Absent
  /\ \E id \in ImportIds :
       Respond("ImportState", NoPlan,
         ImportStatePassthroughID([a \in GCPProjectSchemaAttributes |-> NullStr],
                                  "project_id", id))

GoogleWorkspaceResource_ImportState ==
  /\ rt = "google_workspace" /\ Absent
  /\ \E id \in ImportIds :
       Respond("ImportState", NoPlan,
         ImportStatePassthroughID(GoogleWorkspaceResourceModel("", "", "", ""),
                                  "customer_id", id))

EKSClusterResource_ImportState ==
  /\ rt = "eks_cluster" /\ Absent
  /\ \E id \in EksArns :
       Respond("ImportState", NoPlan,
         [ImportStatePassthroughID(EKSClusterResourceModel("", ""), "arn", id)
            EXCEPT !.backend = clusters])

AWSAccountAckResource_ImportState ==
  /\ rt = "aws_account_ack" /\ Absent
  /\ \E id \in ImportIds :
       Respond("ImportState", NoPlan,
         ImportStatePassthroughID(AWSAccountAckResourceModel("", "", ""),
                                  "cloud_account_id", id))

AWSCostAckResource_ImportState ==
  /\ rt = "aws_cost_ack" /\ Absent
  /\ \E id \in ImportIds :
       Respond("ImportState", NoPlan,
         ImportStatePassthroughID(AWSCostAckResourceModel("", "", "", "", ""),
                                  "cloud_account_id", id))

AWSResponseAckResource_ImportState ==
  /\ rt = "aws_response_ack" /\ Absent
  /\ \E id \in ImportIds :
       Respond("ImportState", NoPlan,
         ImportStatePassthroughID(AWSResponseAckResourceModel("", "", "", <<>>, <<>>, "", ""),
                                  "cloud_account_id", id))

GCPResponseAckResource_ImportState ==
  /\ rt = "gcp_response_ack" /\ Absent
  /\ \E id \in ImportIds :
       Respond("ImportState", NoPlan,
         ImportStatePassthroughID(GCPResponseAckResourceModel("", "", <<>>, ""),
                                  "cloud_account_id", id))

GCPProjectAckResource_ImportState ==
  /\ rt = "gcp_project_ack" /\ Absent
  /\ \E id \in ImportIds :
       Respond("ImportState", NoPlan,
         ImportStatePassthroughID(GCPProjectAckResourceModel("", "", ""), "project_id", id))

AzureTenantAckResource_ImportState ==
  /\ rt = "azure_tenant_ack" /\ Absent
  /\ \E id \in ImportIds :
       Respond("ImportState", NoPlan,
         ImportStatePassthroughID(AzureTenantAckResourceModel("", "", "", <<>>),
                                  "tenant_id", id))

\* an import identifier of aws_real_time_events_ack, as its pieces: a comma,
\* or a run of other characters
Comma == ","
RealTimeImportIds ==
  { <<"c1", Comma, "r1">>, <<"c1">>, <<"c1", Comma, "r1", Comma, "r2">>,
    <<Comma, "r1">>, <<"c1", Comma>>, <<Comma>>, <<>> }

\* strings.Split(id, ",")
RECURSIVE SplitFrom(_, _)
SplitFrom(pieces, part) ==
  IF pieces = <<>> THEN <<part>>
  ELSE IF Head(pieces) = Comma THEN <<part>> \o SplitFrom(Tail(pieces), "")
  ELSE SplitFrom(Tail(pieces), part \o Head(pieces))

Split(pieces) == SplitFrom(pieces, "")

\* an ImportState that only counts the parts
AWSRealTimeEventsAckResource_ImportState_AnyParts ==
  /\ rt = "aws_real_time_events_ack" /\ Absent
  /\ \E id \in RealTimeImportIds :
       LET idParts == Split(id)
           model == AWSRealTimeEventsAckResourceModel("", "")
       IN Respond("ImportState", [ID |-> id],
            IF Len(idParts) # 2
            THEN Result(<<>>, <<"Unexpected Import Identifier">>, FALSE, "none",
                        NoState, backend)
            ELSE Result(<<>>, <<>>, FALSE, "set",
                        [NullModel(model) EXCEPT !.cloud_account_id = idParts[1],
                                                 !.region = idParts[2]],
                        backend))

\* the request's ID is kept as the plan of the call
AWSRealTimeEventsAckResource_ImportState ==
  /\ rt = "aws_real_time_events_ack" /\ Absent
  /\ \E id \in RealTimeImportIds :
       LET idParts == Split(id)
           model == AWSRealTimeEventsAckResourceModel("", "")
       IN Respond("ImportState", [ID |-> id],
            IF Len(idParts) # 2 \/ idParts[1] = "" \/ idParts[2] = ""
            THEN Result(<<>>, <<"Unexpected Import Identifier">>, FALSE, "none",
                        NoState, backend)
            ELSE Result(<<>>, <<>>, FALSE, "set",
                        [NullModel(model) EXCEPT !.cloud_account_id = idParts[1],
                                                 !.region = idParts[2]],
                        backend))

-----------------------------------------------------------------------------
(* provider.go: StreamsecProvider.Configure *)

Settings == <<"host", "username", "password", "workspace_id">>
SettingTitle ==
  [ host |-> "Host", username |-> "Username", password |-> "Password",
    workspace_id |-> "Workspace ID" ]

\* a setting of the configuration: null, unknown, the empty string, a value
ConfigValues == {NullStr, UnknownStr, "", "v"}
\* a STREAMSEC_* variable of the environment: unset or empty, or a value
EnvValues == {"", "e"}

Nil == [nil |-> TRUE]
Client(host, username, password, workspaceId) ==
  [ nil |-> FALSE, Host |-> host, Username |-> username, Password |-> password,
    WorkspaceId |-> workspaceId ]

\* the settings, in the order Configure looks at them, that Test holds of
SettingsThat(Test(_)) == SelectSeq2(Settings, Test)

ConfigureResponse(diags, data) ==
  [ Diagnostics |-> diags, ResourceData |-> data, DataSourceData |-> data ]

\* the value Configure uses: the configuration's unless it is null, else the
\* environment's
Effective(config, env, s) ==
  IF config[s] # NullStr THEN ValueString(config[s]) ELSE env[s]

\* StreamsecProvider_Configure_Body without the check of workspace_id for
\* the empty string
StreamsecProvider_Configure_Body_EmptyWorkspace(config, env, newClient) ==
  LET IsUnknown(s) == config[s] = UnknownStr
      IsMissing(s) == s # "workspace_id" /\ Effective(config, env, s) = ""
      unknown == SettingsThat(IsUnknown)
      missing == SettingsThat(IsMissing)
  IN IF unknown # <<>>
     THEN ConfigureResponse(
            [i \in 1..Len(unknown) |->
               "Unknown Stream.Security API " \o SettingTitle[unknown[i]]], Nil)
     ELSE IF missing # <<>>
     THEN ConfigureResponse(
            [i \in 1..Len(missing) |->
               "Missing Stream.Security API " \o SettingTitle[missing[i]]], Nil)
     ELSE IF ~newClient
     THEN ConfigureResponse(<<"Unable to Create Stream.Security API Client">>, Nil)
     ELSE ConfigureResponse(<<>>,
            Client(Effective(config, env, "host"), Effective(config, env, "username"),
                   Effective(config, env, "password"),
                   Effective(config, env, "workspace_id")))

\* the response of Configure to a configuration, an environment and the
\* outcome of client.NewClient
StreamsecProvider_Configure_Body(config, env, newClient) ==
  LET IsUnknown(s) == config[s] = UnknownStr
      IsMissing(s) == Effective(config, env, s) = ""
      unknown == SettingsThat(IsUnknown)
      missing == SettingsThat(IsMissing)
  IN IF unknown # <<>>
     THEN ConfigureResponse(
            [i \in 1..Len(unknown) |->
               "Unknown Stream.Security API " \o SettingTitle[unknown[i]]], Nil)
     ELSE IF missing # <<>>
     THEN ConfigureResponse(
            [i \in 1..Len(missing) |->
               "Missing Stream.Security API " \o SettingTitle[missing[i]]], Nil)
     ELSE IF ~newClient
     THEN ConfigureResponse(<<"Unable to Create Stream.Security API Client">>, Nil)
     ELSE ConfigureResponse(<<>>,
            Client(Effective(config, env, "host"), Effective(config, env, "username"),
                   Effective(config, env, "password"),
                   Effective(config, env, "workspace_id")))

\* the provider before Configure, and after it
Unconfigured(config, env) ==
  [ config |-> config, env |-> env, configured |-> FALSE, newClient |-> "not called",
    resp |-> ConfigureResponse(<<>>, Nil) ]

StreamsecProvider_Configure ==
  /\ ~provider.configured
  /\ \E newClient \in BOOLEAN :
       LET resp == StreamsecProvider_Configure_Body(provider.config, provider.env, newClient)
           called == resp.Diagnostics = <<>> \/
                     resp.Diagnostics = <<"Unable to Create Stream.Security API Client">>
       IN provider' = [provider EXCEPT
            !.configured = TRUE,
            !.newClient = IF ~called THEN "not called"
                          ELSE IF newClient THEN "ok" ELSE "error",
            !.resp = resp]
  /\ UNCHANGED <<rt, backend, clusters, tfstate, last, created>>

\* the provider the handlers run under: configured, with a client
ConfiguredProvider ==
  LET config == [host |-> "v", username |-> "v", password |-> "v", workspace_id |-> "v"]
      env == [host |-> "", username |-> "", password |-> "", workspace_id |-> ""]
  IN [ Unconfigured(config, env) EXCEPT
         !.configured = TRUE, !.newClient = "ok",
         !.resp = StreamsecProvider_Configure_Body(config, env, TRUE) ]

-----------------------------------------------------------------------------
(* The world outside Terraform *)

ResourceTypes ==
  { "aws_account", "azure_tenant", "gcp_project", "google_workspace", "eks_cluster",
    "aws_account_ack", "aws_cost_ack", "aws_real_time_events_ack", "aws_response_ack",
    "gcp_response_ack", "gcp_project_ack", "azure_tenant_ack" }
DataSourceTypes == {"data.azure_tenant", "data.gcp_project", "data.aws_account"}

\* handlers that look at the status of an account
StatusReaders == {"azure_tenant", "google_workspace"} \cup DataSourceTypes

\* an object of the backend is deleted by someone else
ObjectRemoved ==
  /\ ~Importing
  /\ IF rt = "eks_cluster"
     THEN /\ \E i \in 1..Len(clusters) : clusters' = RemoveAt(clusters, i)
          /\ UNCHANGED backend
     ELSE /\ \E i \in 1..Len(backend) : backend' = RemoveAt(backend, i)
          /\ UNCHANGED clusters
  /\ last' = NoCall
  /\ UNCHANGED <<rt, tfstate, provider, created>>

\* the backend starts deleting an account
AccountDeleting ==
  /\ ~Importing
  /\ rt \in StatusReaders
  /\ \E i \in 1..Len(backend) :
       /\ backend[i].status # "DELETING"
       /\ backend' = [backend EXCEPT ![i].status = "DELETING"]
  /\ last' = NoCall
  /\ UNCHANGED <<rt, clusters, tfstate, provider, created>>

\* The backend before the first invocation: accounts other tools created.
\* An account made without a cloud account id (as azure_tenant's Create makes
\* it) has a null cloud_account_id.
SeedCloudIds == {"c1", NullStr}
SeedIds == <<"a1", "a2", "a3">>
SeedRegions(type) ==
  IF type = "aws_real_time_events_ack"
  THEN {NullList, JSONList(<<[region_name |-> "r1"]>>)}
  ELSE {NullList}
SeedRemediations(type) ==
  IF type \in {"aws_response_ack", "gcp_response_ack"}
  THEN {NoRemediation, Remediation("READY"), Remediation("PENDING")}
  ELSE {NoRemediation}

\* the acknowledgements that take an id or a token from the account they match
\* also meet accounts of another cloud account
SeedCloudIdsOf(type) ==
  IF type \in {"aws_account_ack", "aws_real_time_events_ack"}
  THEN SeedCloudIds \cup {"c2"}
  ELSE SeedCloudIds

SeedAccounts(type, id) ==
  { [Account(id, IF cid = NullStr THEN "Azure" ELSE "AWS", cid, "d0", <<>>, "sr1") EXCEPT
       !.realtime_regions = regions, !.remediation = remediation] :
      cid \in SeedCloudIdsOf(type), regions \in SeedRegions(type),
      remediation \in SeedRemediations(type) }

InitialBackends(type) ==
  IF type = "eks_cluster" THEN {<<>>}
  ELSE UNION { { b \in [1..k -> UNION {SeedAccounts(type, SeedIds[i]) : i \in 1..k}] :
                   \A i \in 1..k : b[i]._id = SeedIds[i] } : k \in 0..MaxAccounts }

InitialClusters(type) ==
  IF type = "eks_cluster"
  THEN { [i \in 1..k |-> Cluster(SeedIds[i], "d0", "arn1")] : k \in 0..MaxAccounts }
  ELSE {<<>>}

Init ==
  /\ rt \in ResourceTypes \cup DataSourceTypes
  /\ backend \in InitialBackends(rt)
  /\ clusters \in InitialClusters(rt)
  /\ tfstate = NoState
  /\ last = NoCall
  /\ provider = ConfiguredProvider
  /\ created = NotCreated

Next ==
  \/ AWSAccountResource_Create \/ AWSAccountResource_Read
  \/ AWSAccountResource_Update \/ AWSAccountResource_Delete
  \/ AWSAccountResource_ImportState
  \/ AzureTenantResource_Create \/ AzureTenantResource_Read
  \/ AzureTenantResource_Update \/ AzureTenantResource_Delete
  \/ AzureTenantResource_ImportState
  \/ GCPProjectResource_Create \/ GCPProjectResource_ImportState
  \/ GoogleWorkspaceResource_Create \/ GoogleWorkspaceResource_Read
  \/ GoogleWorkspaceResource_Update \/ GoogleWorkspaceResource_Delete
  \/ GoogleWorkspaceResource_ImportState
  \/ EKSClusterResource_Create \/ EKSClusterResource_Read
  \/ EKSClusterResource_Update \/ EKSClusterResource_Delete
  \/ EKSClusterResource_ImportState
  \/ AWSAccountAckResource_Create \/ AWSAccountAckResource_Read
  \/ AWSAccountAckResource_Update \/ AWSAccountAckResource_Delete
  \/ AWSAccountAckResource_ImportState
  \/ AWSCostAckResource_Create \/ AWSCostAckResource_Read
  \/ AWSCostAckResource_Update \/ AWSCostAckResource_Delete
  \/ AWSCostAckResource_ImportState
  \/ AWSRealTimeEventsAckResource_Create \/ AWSRealTimeEventsAckResource_Read
  \/ AWSRealTimeEventsAckResource_Update \/ AWSRealTimeEventsAckResource_Delete
  \/ AWSRealTimeEventsAckResource_ImportState
  \/ AWSResponseAckResource_Create \/ AWSResponseAckResource_Read
  \/ AWSResponseAckResource_Delete \/ AWSResponseAckResource_ImportState
  \/ GCPResponseAckResource_Create \/ GCPResponseAckResource_Read
  \/ GCPResponseAckResource_Update \/ GCPResponseAckResource_Delete
  \/ GCPResponseAckResource_ImportState
  \/ GCPProjectAckResource_Create \/ GCPProjectAckResource_Read
  \/ GCPProjectAckResource_Update \/ GCPProjectAckResource_Delete
  \/ GCPProjectAckResource_ImportState
  \/ AzureTenantAckResource_Create \/ AzureTenantAckResource_Read
  \/ AzureTenantAckResource_Update \/ AzureTenantAckResource_Delete
  \/ AzureTenantAckResource_ImportState
  \/ AzureTenantDataSource_Read \/ GCPProjectDataSource_Read \/ AWSAccountDataSource_Read
  \/ ObjectRemoved \/ AccountDeleting

Spec == Init /\ [][Next]_vars

\* Configure alone: every configuration and environment, no resource yet
InitConfigure ==
  /\ rt = "provider"
  /\ backend = <<>> /\ clusters = <<>>
  /\ tfstate = NoState /\ last = NoCall /\ created = NotCreated
  /\ provider \in { Unconfigured(config, env) :
                       config \in [DOMAIN SettingTitle -> ConfigValues],
                       env \in [DOMAIN SettingTitle -> EnvValues] }

NextConfigure == StreamsecProvider_Configure

SpecConfigure == InitConfigure /\ [][NextConfigure]_vars

-----------------------------------------------------------------------------
(* The list helpers of helper_functions.go on their own *)

MaxChars == 2
MaxElems == 2

\* the characters of an element: a letter, a double quote, a backslash
Chars == {"a", Quote, Backslash}
SeqsUpTo(S, n) == UNION {[1..k -> S] : k \in 0..n}
Strings == SeqsUpTo(Chars, MaxChars)
StringLists == SeqsUpTo(Strings, MaxElems)

\* a list of strings that no helper was applied to yet
Given(xs) == [op |-> "none", values |-> xs]

\* list := ConvertStringsArrayToTypesList(xs)
ConvertStringsArrayToTypesList_Call ==
  /\ rt = "utils" /\ last.op = "none"
  /\ last' = [op |-> "ConvertStringsArrayToTypesList", values |-> last.values,
              list |-> ConvertStringsArrayToTypesList(last.values)]
  /\ UNCHANGED <<rt, backend, clusters, tfstate, provider, created>>

\* result := ConvertToStringSlice(list.Elements())
ConvertToStringSlice_Call ==
  /\ rt = "utils" /\ last.op = "ConvertStringsArrayToTypesList"
  /\ last' = [op |-> "ConvertToStringSlice", values |-> last.values,
              list |-> last.list, result |-> ConvertToStringSlice(last.list)]
  /\ UNCHANGED <<rt, backend, clusters, tfstate, provider, created>>

InitHelpers ==
  /\ rt = "utils" /\ backend = <<>> /\ clusters = <<>> /\ tfstate = NoState
  /\ provider = ConfiguredProvider /\ created = NotCreated
  /\ last \in {Given(xs) : xs \in StringLists}

NextHelpers == ConvertStringsArrayToTypesList_Call \/ ConvertToStringSlice_Call

SpecHelpers == InitHelpers /\ [][NextHelpers]_vars

-----------------------------------------------------------------------------
(* What the specification says of every handler *)

ResourceHandlers == {"Create", "Read", "Update", "Delete"}
Invoked == last.op \in ResourceHandlers
SomeRequestFailed == \E i \in 1..Len(last.reqs) : ~last.reqs[i].ok
EndedClean == last.diags = <<>> /\ ~last.crashed

\* C1: when a remote request of an invocation of Create, Read, Update or
\* Delete fails (a GraphQL error, a REST transport error or a status other than
\* 200), the invocation ends with an error diagnostic, has neither written nor
\* removed the state, and the state after it is the state before it.
C1_FailedRequestLeavesState ==
  (Invoked /\ SomeRequestFailed) =>
     /\ last.diags # <<>>
     /\ last.wrote = "none"
     /\ tfstate = last.prior

\* an Update whose second request, a REST call, came back with status 500
\* and which left the state as it was
C1_Witness ==
  /\ last.op = "Update" /\ Len(last.reqs) = 2 /\ SomeRequestFailed
  /\ last.reqs[2].api = "rest" /\ last.reqs[2].result = "500"
  /\ last.diags # <<>> /\ tfstate = last.prior /\ tfstate # NoState

-----------------------------------------------------------------------------
(* Read of an object the backend does not hold *)

\* the attribute of the state (of the configuration, for a data source) that
\* Read looks the remote object up by
KeyAttribute ==
  IF rt = "azure_tenant" THEN "id"
  ELSE IF rt = "google_workspace" THEN "customer_id"
  ELSE IF rt \in {"gcp_project_ack", "data.gcp_project"} THEN "project_id"
  ELSE IF rt \in {"azure_tenant_ack", "data.azure_tenant"} THEN "tenant_id"
  ELSE "cloud_account_id"

ReadKey == IF rt \in DataSourceTypes THEN ValueString(last.plan[KeyAttribute])
           ELSE ValueString(last.prior[KeyAttribute])

\* objects of the backend, as Read met it, that match the key
Matching ==
  IF rt = "eks_cluster" THEN 1..Len(last.pre)
  ELSE IF rt = "azure_tenant" THEN {i \in 1..Len(last.pre) : last.pre[i]._id = ReadKey}
  ELSE {i \in 1..Len(last.pre) : last.pre[i].cloud_account_id = ReadKey}

\* a Read whose query was answered and held no matching object
ReadFoundNothing ==
  /\ last.op = "Read" /\ last.reqs # <<>> /\ ~SomeRequestFailed
  /\ Matching = {}

ErrorOnMissing ==
  { "aws_account", "azure_tenant", "eks_cluster", "aws_cost_ack", "gcp_project_ack",
    "azure_tenant_ack", "data.azure_tenant" }
RemoveOnMissing ==
  { "google_workspace", "aws_account_ack", "aws_real_time_events_ack",
    "aws_response_ack", "gcp_response_ack", "data.gcp_project", "data.aws_account" }
\* lookups that compare cloud_account_id without asking whether it is null
UncheckedLookup ==
  (ResourceTypes \cup DataSourceTypes) \ {"azure_tenant", "eks_cluster", "data.azure_tenant"}

C2_Witness_Error ==
  /\ ReadFoundNothing /\ rt = "aws_cost_ack" /\ last.diags = <<"Resource not found">>

-----------------------------------------------------------------------------
(* Requests of one invocation *)

SameRequest(a, b) ==
  /\ a.api = b.api /\ a.name = b.name
  /\ a.vars = b.vars /\ a.token = b.token

\* C3: nothing is retried. Within one invocation no request is sent a second
\* time, and a request that failed is the last one of its invocation.
C3_NothingIsRetried ==
  /\ \A i, j \in 1..Len(last.reqs) : i < j => ~SameRequest(last.reqs[i], last.reqs[j])
  /\ \A i \in 1..Len(last.reqs) : ~last.reqs[i].ok => i = Len(last.reqs)

\* a Delete whose one request failed, and nothing was sent after it
C3_Witness ==
  /\ last.op = "Delete" /\ Len(last.reqs) = 1 /\ ~last.reqs[1].ok
  /\ last.diags # <<>>

\* C4, as stated: every invocation of Create, Read, Update or Delete issues at
\* most one remote request.
C4_AtMostOneRequest == Invoked => Len(last.reqs) <= 1

\* handlers that look the account up before they send their own request
LookupFirst ==
  { <<t, "Create">> : t \in { "aws_account_ack", "aws_cost_ack", "aws_real_time_events_ack",
                              "gcp_response_ack", "gcp_project_ack", "azure_tenant_ack" } }
    \cup { <<"aws_account_ack", "Update">>, <<"gcp_response_ack", "Update">> }

\* C4, amended: an invocation issues at most two requests; it issues two only
\* in the handlers of LookupFirst, where the first is the accounts query, which
\* succeeded, and the second is the acknowledgement. Every other handler issues
\* at most one.
C4_AtMostTwoRequests ==
  Invoked =>
     /\ Len(last.reqs) <= 2
     /\ Len(last.reqs) = 2 =>
          /\ <<rt, last.op>> \in LookupFirst
          /\ last.reqs[1].name = "accounts" /\ last.reqs[1].ok
          /\ last.reqs[2].name # "accounts"

\* an Update of aws_account_ack that sent the lookup and then the mutation
C4_Witness ==
  /\ rt = "aws_account_ack" /\ last.op = "Update" /\ Len(last.reqs) = 2
  /\ EndedClean

-----------------------------------------------------------------------------
(* Create, then Read *)

RoundTripTypes == {"aws_account", "azure_tenant", "gcp_project", "google_workspace"}

\* C5: for aws_account, azure_tenant, gcp_project and google_workspace, the
\* Read that follows a successful Create, its query answered by the backend as
\* Create left it, succeeds and writes the state Create wrote, field by field.
C5_CreateThenRead ==
  [][ ( /\ rt \in RoundTripTypes
        /\ last.op = "Create" /\ last.wrote = "set"
        /\ last'.op = "Read"
        /\ \A i \in 1..Len(last'.reqs) : last'.reqs[i].ok )
      => ( /\ last'.diags = <<>> /\ ~last'.crashed
           /\ last'.wrote = "set"
           /\ tfstate' = tfstate ) ]_vars

-----------------------------------------------------------------------------
(* Delete *)

\* the request is a deletion of the remote object the state (as Delete got it)
\* identifies: a delete mutation keyed by its id, a REST DELETE for its cloud
\* account, or a "Delete" acknowledgement with its account's token
IsDeletion(req) ==
  \/ /\ req.api = "graphql"
     /\ req.name \in {"deleteAccount", "deleteKubernetes"}
     /\ req.vars.id = ValueString(last.prior.id)
  \/ /\ req.api = "rest" /\ req.method = "DELETE"
     /\ req.name = Host \o "/api/accounts/accounts/remediation/"
                        \o ValueString(last.prior.cloud_account_id)
  \/ /\ req.api = "rest" /\ req.method = "POST"
     /\ req.vars.operation = "Delete"
     /\ req.token = ValueString(last.prior.streamsec_collection_token)

\* C6, as stated: Delete of every resource type issues a deletion request for
\* the object the state identifies, and completes without error only if that
\* request succeeded.
C6_DeleteSendsDeletion ==
  last.op = "Delete" =>
     /\ \E i \in 1..Len(last.reqs) : IsDeletion(last.reqs[i])
     /\ EndedClean => \E i \in 1..Len(last.reqs) :
                         IsDeletion(last.reqs[i]) /\ last.reqs[i].ok

\* resources whose Delete only forgets the state, and resources whose Delete
\* asks the backend; gcp_project is in neither, it never has a state to delete
LocalDelete == {"aws_account_ack", "gcp_project_ack", "azure_tenant_ack"}
RemoteDelete ==
  { "aws_account", "azure_tenant", "google_workspace", "eks_cluster", "aws_cost_ack",
    "aws_real_time_events_ack", "aws_response_ack", "gcp_response_ack" }

\* C6, amended: Delete of aws_account_ack, gcp_project_ack and
\* azure_tenant_ack sends nothing and always completes without error. Delete
\* of aws_account, azure_tenant, google_workspace, eks_cluster, aws_cost_ack,
\* aws_real_time_events_ack, aws_response_ack and gcp_response_ack sends
\* exactly one request, the deletion for the object the state identifies, and
\* completes without error exactly when that request succeeded.
C6_DeleteByType ==
  last.op = "Delete" =>
     IF rt \in LocalDelete
     THEN last.reqs = <<>> /\ EndedClean /\ tfstate = NoState
     ELSE /\ rt \in RemoteDelete
          /\ Len(last.reqs) = 1
          /\ IsDeletion(last.reqs[1])
          /\ EndedClean <=> last.reqs[1].ok
          /\ tfstate = (IF last.reqs[1].ok THEN NoState ELSE last.prior)

\* an aws_account_ack is deleted without a request, its account still there
C6_Witness ==
  /\ rt = "aws_account_ack" /\ last.op = "Delete" /\ last.reqs = <<>>
  /\ tfstate = NoState
  /\ \E i \in 1..Len(backend) : backend[i]._id = ValueString(last.prior.id)

\* an aws_account whose deleteAccount failed keeps its state
C6_Witness_Failed ==
  /\ rt = "aws_account" /\ last.op = "Delete" /\ ~last.reqs[1].ok
  /\ tfstate = last.prior /\ last.diags # <<>>

-----------------------------------------------------------------------------
(* Update *)

InPlaceTypes == {"aws_account", "azure_tenant", "gcp_project", "google_workspace",
                 "eks_cluster"}

\* the fields an update mutation carries, and the collection it goes to
Carried(req) == IF rt = "eks_cluster" THEN req.vars.kubernetes ELSE req.vars.account
Collection == IF rt = "eks_cluster" THEN clusters ELSE backend

\* C7: for aws_account, azure_tenant, gcp_project, google_workspace and
\* eks_cluster a successful Update sends only update mutations, addressed to
\* the id held in state; the written state keeps that id; and the backend's
\* values of the fields the mutation carries are the planned values.
C7_UpdateInPlace ==
  (rt \in InPlaceTypes /\ last.op = "Update" /\ EndedClean) =>
     /\ tfstate.id = last.prior.id
     /\ \A i \in 1..Len(last.reqs) :
          LET req == last.reqs[i]
              at == IndexOfId(Collection, ValueString(last.prior.id))
          IN /\ req.name \in {"updateAccount", "updateKubernetes"}
             /\ req.vars.id = ValueString(last.prior.id)
             /\ at # 0
             /\ \A f \in DOMAIN Carried(req) : Collection[at][f] = last.plan[f]

\* the same, for plans whose cloud_regions need no escaping when quoted
C7_UpdateInPlace_PlainRegions ==
  ( /\ rt \in InPlaceTypes /\ last.op = "Update" /\ EndedClean
    /\ (rt = "aws_account" =>
          \A i \in 1..Len(last.plan.cloud_regions) :
             \A k \in 1..Len(last.plan.cloud_regions[i]) :
                last.plan.cloud_regions[i][k] \notin {Quote, Backslash}) )
  => C7_UpdateInPlace

-----------------------------------------------------------------------------
(* Data sources *)

\* C8: a Read of the azure_tenant, gcp_project or aws_account data source
\* sends one request at most, the accounts query: never a mutation, never a
\* REST call. The accounts of the backend and all their fields are after the
\* Read what they were before it.
C8_DataSourcesReadOnly ==
  (rt \in DataSourceTypes /\ last.op = "Read") =>
     /\ backend = last.pre
     /\ \A i \in 1..Len(last.reqs) :
          /\ last.reqs[i].api = "graphql"
          /\ last.reqs[i].name = "accounts"
          /\ last.reqs[i].vars = <<>>

\* the aws_account data source found its account among several and wrote it
\* to the state
C8_Witness ==
  /\ rt = "data.aws_account" /\ last.op = "Read" /\ last.wrote = "set"
  /\ Len(backend) >= 2
  /\ \E i \in 1..Len(backend) : backend[i]._id = tfstate.id

-----------------------------------------------------------------------------
(* Create of the acknowledgement resources *)

AckTypes ==
  { "aws_account_ack", "aws_cost_ack", "aws_real_time_events_ack", "aws_response_ack",
    "gcp_project_ack", "gcp_response_ack", "azure_tenant_ack" }

\* accounts of the backend, as Create met it, whose cloud_account_id is the
\* configured identifier
Configured ==
  {i \in 1..Len(last.pre) :
      last.pre[i].cloud_account_id = ValueString(last.plan[KeyAttribute])}

IsAcknowledgement(req) == req.name # "accounts"

\* C9: Create of an acknowledgement resource sends its acknowledgement only
\* after an accounts lookup that was answered and held an account with the
\* configured identifier. When the lookup is answered and holds no such
\* account, Create reports "Resource not found", sends no acknowledgement and
\* writes no state.
C9_AckNeedsAccount ==
  (rt \in AckTypes /\ last.op = "Create") =>
     /\ \A i \in 1..Len(last.reqs) :
          IsAcknowledgement(last.reqs[i]) =>
             /\ i > 1
             /\ last.reqs[1].name = "accounts" /\ last.reqs[1].ok
             /\ Configured # {}
     /\ (last.reqs # <<>> /\ last.reqs[1].ok /\ Configured = {}) =>
          /\ last.diags = <<"Resource not found">>
          /\ ~last.crashed
          /\ Len(last.reqs) = 1
          /\ last.wrote = "none" /\ tfstate = last.prior

\* the same, of the invocations that did not panic
C9_AckNeedsAccount_NoPanic ==
  (rt \in AckTypes /\ last.op = "Create" /\ ~last.crashed) => C9_AckNeedsAccount

-----------------------------------------------------------------------------
(* azure_tenant data source *)

\* C10: Read of the azure_tenant data source, its query answered, for a
\* configured tenant_id T. When no account of the backend has cloud_account_id
\* T it reports "Resource not found" and writes no state. When one has, and
\* none of them is DELETING, it writes id, display_name, template_url and
\* account_token of such an account and tenant_id T. It writes state in no
\* other case.
C10_AzureTenantDataSource ==
  (rt = "data.azure_tenant" /\ last.op = "Read" /\ ~SomeRequestFailed) =>
     LET deleting == \E i \in Configured : last.pre[i].status = "DELETING"
     IN /\ Configured = {} =>
             /\ last.diags = <<"Resource not found">>
             /\ last.wrote = "none" /\ tfstate = last.prior
        /\ (Configured # {} /\ ~deleting) =>
             /\ EndedClean /\ last.wrote = "set"
             /\ \E i \in Configured :
                  tfstate = [ id |-> last.pre[i]._id,
                              tenant_id |-> last.plan.tenant_id,
                              display_name |-> last.pre[i].display_name,
                              template_url |-> TemplateURL(last.pre[i]._id),
                              account_token |-> AccountToken(last.pre[i]._id) ]
        /\ deleting => last.wrote = "none"

\* the tenant was found behind an account whose cloud_account_id is null
C10_Witness ==
  /\ rt = "data.azure_tenant" /\ last.op = "Read" /\ last.wrote = "set"
  /\ \E i, j \in 1..Len(last.pre) :
        /\ i < j
        /\ last.pre[i].cloud_account_id = NullStr
        /\ last.pre[j]._id = tfstate.id
        /\ last.pre[j].cloud_account_id = ValueString(last.plan.tenant_id)

\* no account has the tenant's identifier: "Resource not found"
C10_Witness_NotFound ==
  /\ rt = "data.azure_tenant" /\ last.op = "Read" /\ ~SomeRequestFailed
  /\ last.pre # <<>> /\ Configured = {}
  /\ last.diags = <<"Resource not found">>

-----------------------------------------------------------------------------
(* aws_account_ack: Create *)

\* C11: after a successful Create of aws_account_ack the state's id is the _id
\* of an account of the backend whose cloud_account_id is the configured one;
\* role_arn, cloud_account_id and stack_region of the state are the planned
\* values; and the accountAcknowledge mutation carries that id and those three
\* values.
C11_AccountAckCreate ==
  (rt = "aws_account_ack" /\ last.op = "Create" /\ EndedClean) =>
     /\ last.wrote = "set"
     /\ \E i \in Configured : tfstate.id = last.pre[i]._id
     /\ tfstate.role_arn = last.plan.role_arn
     /\ tfstate.cloud_account_id = last.plan.cloud_account_id
     /\ tfstate.stack_region = last.plan.stack_region
     /\ Len(last.reqs) = 2
     /\ LET ack == last.reqs[2]
        IN /\ ack.name = "accountAcknowledge" /\ ack.ok
           /\ ack.vars.lightlytics_internal_account_id = tfstate.id
           /\ ack.vars.role_arn = last.plan.role_arn
           /\ ack.vars.cloud_account_id = last.plan.cloud_account_id
           /\ ack.vars.stack_region = last.plan.stack_region

\* the account was acknowledged while the backend held an account of another
\* cloud account as well
C11_Witness ==
  /\ rt = "aws_account_ack" /\ last.op = "Create" /\ EndedClean
  /\ \E i, j \in 1..Len(last.pre) :
        /\ last.pre[i]._id = tfstate.id
        /\ last.pre[j].cloud_account_id # last.pre[i].cloud_account_id
  /\ \E i \in 1..Len(backend) :
        backend[i]._id = tfstate.id /\ backend[i].role_arn = last.plan.role_arn

-----------------------------------------------------------------------------
(* aws_real_time_events_ack: Create *)

\* the cft-event POST of the invocation, if it sent one
SentCFTEvent == Len(last.reqs) = 2 /\ last.reqs[2].api = "rest"

\* C12: the cft-event POST of a Create of aws_real_time_events_ack carries the
\* collection token of an account whose cloud_account_id is the configured
\* one, and the token of no account whose cloud_account_id differs; after a
\* successful Create the state's streamsec_collection_token is that token.
C12_RealTimeToken ==
  (rt = "aws_real_time_events_ack" /\ last.op = "Create") =>
     /\ SentCFTEvent =>
          /\ \E i \in Configured :
                last.reqs[2].token = CollectionToken(last.pre[i]._id)
          /\ \A j \in 1..Len(last.pre) :
                last.pre[j].cloud_account_id # ValueString(last.plan.cloud_account_id)
                   => last.reqs[2].token # CollectionToken(last.pre[j]._id)
     /\ EndedClean =>
          /\ SentCFTEvent /\ last.wrote = "set"
          /\ tfstate.streamsec_collection_token = last.reqs[2].token
          /\ \E i \in Configured :
                /\ tfstate.id = last.pre[i]._id
                /\ tfstate.streamsec_collection_token = CollectionToken(last.pre[i]._id)

\* a region was enabled on an account that an account of another cloud
\* account follows in the answer of the lookup
C12_Witness ==
  /\ rt = "aws_real_time_events_ack" /\ last.op = "Create" /\ EndedClean
  /\ \E i, j \in 1..Len(last.pre) :
        /\ i < j
        /\ last.pre[i]._id = tfstate.id
        /\ last.pre[j].cloud_account_id \notin {NullStr, last.pre[i].cloud_account_id}

-----------------------------------------------------------------------------
(* Provider Configure *)

AllKnown == \A s \in DOMAIN SettingTitle : provider.config[s] # UnknownStr
AllSet ==
  \A s \in DOMAIN SettingTitle :
     (IF provider.config[s] # NullStr THEN provider.config[s] ELSE provider.env[s]) # ""
Published == ~provider.resp.ResourceData.nil \/ ~provider.resp.DataSourceData.nil

\* C13: Configure publishes a client, the same one as ResourceData and as
\* DataSourceData, exactly when all four settings are known, the effective
\* value of each is not empty and the construction of the client succeeded; it
\* then reports nothing. In every other case it reports at least one error
\* and leaves both unset.
C13_ConfigurePublishes ==
  provider.configured =>
     /\ Published <=> (AllKnown /\ AllSet /\ provider.newClient = "ok")
     /\ Published =>
          /\ provider.resp.Diagnostics = <<>>
          /\ ~provider.resp.ResourceData.nil
          /\ provider.resp.DataSourceData = provider.resp.ResourceData
     /\ ~Published =>
          /\ provider.resp.Diagnostics # <<>>
          /\ provider.resp.ResourceData = Nil /\ provider.resp.DataSourceData = Nil

\* a client made of two settings of the configuration and two of the
\* environment
C13_Witness ==
  /\ provider.configured /\ Published
  /\ provider.config.host = NullStr /\ provider.config.password = NullStr
  /\ provider.config.username = "v"
  /\ provider.resp.ResourceData.Host = "e" /\ provider.resp.ResourceData.Username = "v"

\* an empty setting of the configuration is not replaced by the environment's
C13_Witness_Empty ==
  /\ provider.configured /\ ~Published
  /\ provider.config.host = "" /\ provider.env.host = "e"
  /\ provider.resp.Diagnostics = <<"Missing Stream.Security API Host">>

-----------------------------------------------------------------------------
(* eks_cluster: Create, then Read *)

\* C14: the Read that follows a successful Create of eks_cluster with ARN A,
\* its query answered, does not fail on the items the query returns; when a
\* cluster of the backend has eks_arn A it writes the state with id,
\* display_name, status, collection_token and creation_date of such a cluster;
\* it reports "Resource not found" only when no cluster has eks_arn A.
C14_EKSCreateThenRead ==
  [][ ( /\ rt = "eks_cluster"
        /\ last.op = "Create" /\ last.wrote = "set"
        /\ last'.op = "Read"
        /\ \A i \in 1..Len(last'.reqs) : last'.reqs[i].ok )
      => LET A == ValueString(tfstate.arn)
             withA == {i \in 1..Len(clusters) : clusters[i].eks_arn = A}
         IN /\ ~last'.crashed
            /\ withA # {} =>
                 /\ last'.diags = <<>> /\ last'.wrote = "set"
                 /\ \E i \in withA :
                      tfstate' = [ id |-> clusters[i]._id,
                                   arn |-> tfstate.arn,
                                   display_name |-> clusters[i].display_name,
                                   status |-> clusters[i].status,
                                   collection_token |-> clusters[i].collection_token,
                                   creation_date |-> clusters[i].creation_date ]
            /\ last'.diags = <<"Resource not found">> => withA = {} ]_vars

-----------------------------------------------------------------------------
(* Update: when the mutation is sent *)

\* the attributes Update compares between plan and prior state
Tracked ==
  IF rt = "aws_account" THEN {"display_name", "cloud_regions"}
  ELSE IF rt = "google_workspace" THEN {"display_name", "client_email", "private_key"}
  ELSE IF rt = "azure_tenant_ack" THEN {"subscriptions", "client_id", "client_secret"}
  ELSE {"display_name"}

ComparingTypes ==
  { "aws_account", "azure_tenant", "gcp_project", "eks_cluster", "google_workspace",
    "azure_tenant_ack" }

TrackedDiffers == \E f \in Tracked : last.plan[f] # last.prior[f]

C15_Witness_Untracked ==
  /\ rt = "azure_tenant_ack" /\ last.op = "Update" /\ last.reqs = <<>>
  /\ last.plan.tenant_id # last.prior.tenant_id
  /\ tfstate = last.plan

-----------------------------------------------------------------------------
(* aws_real_time_events_ack: a region that is already enabled *)

\* an account with the configured cloud_account_id lists the planned region
RegionListed ==
  \E i \in Configured : HasRegion(last.pre[i], ValueString(last.plan.region))

\* C16: a Create of aws_real_time_events_ack whose lookup is answered and
\* matches an account. When the matched account lists the planned region among
\* its realtime_regions, Create reports "Region already exists", sends no
\* cft-event POST and writes no state; otherwise it sends exactly one POST,
\* with operation "Create", for the planned account and region.
C16_RegionAlreadyExists ==
  ( /\ rt = "aws_real_time_events_ack" /\ last.op = "Create"
    /\ last.reqs # <<>> /\ last.reqs[1].ok /\ Configured # {} ) =>
     /\ RegionListed =>
          /\ last.diags = <<"Region already exists">>
          /\ Len(last.reqs) = 1
          /\ last.wrote = "none" /\ tfstate = last.prior
     /\ ~RegionListed =>
          /\ Len(last.reqs) = 2
          /\ last.reqs[2].api = "rest" /\ last.reqs[2].method = "POST"
          /\ last.reqs[2].name = Host \o "/api/v1/collection/cloudtrail/cft-event"
          /\ last.reqs[2].vars.operation = "Create"
          /\ last.reqs[2].vars.AccountId = ValueString(last.plan.cloud_account_id)
          /\ last.reqs[2].vars.Region = ValueString(last.plan.region)

\* the same, of the invocations that did not panic
C16_RegionAlreadyExists_NoPanic ==
  ~last.crashed => C16_RegionAlreadyExists

-----------------------------------------------------------------------------
(* aws_response_ack, gcp_response_ack: remediation that is already enabled *)

\* an account with the configured cloud_account_id has a remediation record
\* whose status is READY
RemediationReady ==
  \E i \in Configured :
     /\ ~last.pre[i].remediation.nil
     /\ last.pre[i].remediation.status = "READY"

\* C17: a Create of aws_response_ack or gcp_response_ack whose lookup is
\* answered and matches an account whose remediation status is READY reports
\* "Account remediation is already enabled", sends no remediation-acknowledge
\* POST and writes no state.
C17_RemediationAlreadyEnabled ==
  ( /\ rt \in {"aws_response_ack", "gcp_response_ack"} /\ last.op = "Create"
    /\ last.reqs # <<>> /\ last.reqs[1].ok /\ RemediationReady ) =>
     /\ last.diags = <<"Account remediation is already enabled">>
     /\ Len(last.reqs) = 1
     /\ last.wrote = "none" /\ tfstate = last.prior

\* the same, of the invocations that did not panic
C17_RemediationAlreadyEnabled_NoPanic ==
  ~last.crashed => C17_RemediationAlreadyEnabled

-----------------------------------------------------------------------------
(* aws_real_time_events_ack: the import identifier *)

\* the identifier holds exactly one comma, with text before it and after it
TwoParts(id) ==
  /\ Cardinality({i \in 1..Len(id) : id[i] = Comma}) = 1
  /\ id[1] # Comma /\ id[Len(id)] # Comma

\* C18: ImportState of aws_real_time_events_ack accepts an identifier exactly
\* when it splits on ',' into two non-empty parts, and then sets
\* cloud_account_id to the first part and region to the second and nothing
\* else; for every other identifier it reports "Unexpected Import Identifier"
\* and sets no state attribute.
C18_ImportIdentifier ==
  (rt = "aws_real_time_events_ack" /\ last.op = "ImportState") =>
     LET id == last.plan.ID
     IN IF TwoParts(id)
        THEN /\ last.diags = <<>> /\ ~last.crashed
             /\ tfstate.cloud_account_id = id[1]
             /\ tfstate.region = id[3]
             /\ \A f \in DOMAIN tfstate \ {"cloud_account_id", "region"} :
                   tfstate[f] = NullStr
        ELSE /\ last.diags = <<"Unexpected Import Identifier">>
             /\ last.wrote = "none" /\ tfstate = NoState

\* an identifier "c1,r1" was accepted
C18_Witness ==
  /\ rt = "aws_real_time_events_ack" /\ last.op = "ImportState"
  /\ last.plan.ID = <<"c1", Comma, "r1">>
  /\ last.diags = <<>>
  /\ tfstate # NoState /\ tfstate.cloud_account_id = "c1" /\ tfstate.region = "r1"

\* an identifier ",r1", whose first part is empty, was rejected
C18_Witness_EmptyPart ==
  /\ rt = "aws_real_time_events_ack" /\ last.op = "ImportState"
  /\ last.plan.ID = <<Comma, "r1">>
  /\ last.diags = <<"Unexpected Import Identifier">>
  /\ tfstate = NoState

-----------------------------------------------------------------------------
(* Read of an account that is being deleted *)

\* the answered lookup of a Read held a matching account whose status is
\* DELETING
ReadMatchedDeleting ==
  /\ last.op = "Read"
  /\ last.reqs # <<>> /\ last.reqs[1].ok
  /\ \E i \in Matching : last.pre[i].status = "DELETING"

\* C19: a Read of the azure_tenant or google_workspace resource, or of the
\* azure_tenant, gcp_project or aws_account data source, that matches an
\* account whose status is DELETING reports "Resource status is DELETING" and
\* writes no state: the prior state is neither refreshed nor removed.
C19_ReadOfDeleting ==
  (rt \in StatusReaders /\ ReadMatchedDeleting) =>
     /\ last.diags = <<"Resource status is DELETING">>
     /\ last.wrote = "none" /\ tfstate = last.prior

\* the same, of the invocations that did not panic
C19_ReadOfDeleting_NoPanic ==
  ~last.crashed => C19_ReadOfDeleting

-----------------------------------------------------------------------------
(* The list helpers: a round trip *)

\* C20: for every list xs of strings,
\* ConvertToStringSlice(ConvertStringsArrayToTypesList(xs).Elements()) has the
\* length of xs and the elements of xs in the same order, also when xs is
\* empty and when an element contains a double quote.
C20_RoundTrip ==
  (rt = "utils" /\ last.op = "ConvertToStringSlice") =>
     /\ Len(last.result) = Len(last.values)
     /\ \A i \in 1..Len(last.values) : last.result[i] = last.values[i]

\* no element of the list holds a double quote or a backslash
PlainList(xs) ==
  \A i \in 1..Len(xs) : \A k \in 1..Len(xs[i]) : xs[i][k] \notin {Quote, Backslash}

\* the same, of the lists whose elements hold neither a double quote nor a
\* backslash
C20_RoundTrip_Plain ==
  (rt = "utils" /\ last.op = "ConvertToStringSlice" /\ PlainList(last.values)) =>
     last.result = last.values

\* the length is kept for every list
C20_RoundTrip_Length ==
  (rt = "utils" /\ last.op = "ConvertToStringSlice") =>
     Len(last.result) = Len(last.values)

-----------------------------------------------------------------------------
(* Read of a feature acknowledgement *)

FeatureTypes == {"aws_real_time_events_ack", "gcp_response_ack"}

\* the backend, as Read met it, shows the feature enabled for an account that
\* matches the state's cloud_account_id
FeatureEnabled ==
  \E i \in Matching :
     IF rt = "aws_real_time_events_ack"
     THEN HasRegion(last.pre[i], ValueString(last.prior.region))
     ELSE /\ ~last.pre[i].remediation.nil
          /\ last.pre[i].remediation.status = "READY"

\* C21: a Read of aws_real_time_events_ack or gcp_response_ack whose lookup is
\* answered keeps the resource in state exactly when the matched account
\* shows the feature enabled (the state's region among realtime_regions,
\* remediation status READY); otherwise, with no matching account or the
\* feature not enabled, it removes the resource from state. A resource that
\* is kept keeps its cloud_account_id, and its region.
C21_ReadKeepsIffEnabled ==
  ( /\ rt \in FeatureTypes /\ last.op = "Read"
    /\ last.reqs # <<>> /\ last.reqs[1].ok ) =>
     IF FeatureEnabled
     THEN /\ last.wrote = "set" /\ tfstate # NoState
          /\ tfstate.cloud_account_id = last.prior.cloud_account_id
          /\ rt = "aws_real_time_events_ack" => tfstate.region = last.prior.region
     ELSE last.wrote = "remove" /\ tfstate = NoState

\* the same, of the invocations that did not panic
C21_ReadKeepsIffEnabled_NoPanic ==
  ~last.crashed => C21_ReadKeepsIffEnabled

\* the same, of the invocations that did not panic and met at most one account
\* with the state's cloud_account_id
C21_ReadKeepsIffEnabled_OneMatch ==
  (~last.crashed /\ last.op = "Read" /\ Cardinality(Matching) <= 1) =>
     C21_ReadKeepsIffEnabled

-----------------------------------------------------------------------------
(* aws_real_time_events_ack: the acknowledgements of one instance *)

\* C22: for one aws_real_time_events_ack instance, after any sequence of
\* Reads and Updates that follows its Create, the POST that Delete sends
\* carries the AccountId and Region of the POST its Create sent and differs
\* from it in operation only ("Delete" for "Create"); and an Update sends no
\* request and leaves cloud_account_id and region of the state as they were.
C22_DeleteMirrorsCreate ==
  rt = "aws_real_time_events_ack" =>
     /\ (last.op = "Delete" /\ created # NotCreated) =>
           /\ Len(last.reqs) = 1
           /\ last.reqs[1].api = "rest" /\ last.reqs[1].method = "POST"
           /\ created.operation = "Create"
           /\ last.reqs[1].vars = [created EXCEPT !.operation = "Delete"]
     /\ last.op = "Update" =>
           /\ last.reqs = <<>>
           /\ tfstate.cloud_account_id = last.prior.cloud_account_id
           /\ tfstate.region = last.prior.region

\* an instance created for region "r2" was deleted, and the backend answered
C22_Witness ==
  /\ rt = "aws_real_time_events_ack" /\ last.op = "Delete"
  /\ created # NotCreated /\ created.Region = "r2"
  /\ last.reqs[1].ok /\ tfstate = NoState

\* an instance that a Create made went through an Update
C22_Witness_Update ==
  /\ rt = "aws_real_time_events_ack" /\ last.op = "Update"
  /\ created # NotCreated /\ tfstate # NoState

====
